---- MODULE Spec2Model ----
(***************************************************************************)
(* Model of the proactive-dialogue plugin: the inactivity-escalation core  *)
(* (initiative_dialogue_core.py), its request hook, the meal and sharing   *)
(* loop (random_daily_activities.py), the greeting loop                    *)
(* (daily_greetings.py) and the deferred send tasks they spawn on the      *)
(* asyncio event loop.                                                     *)
(*                                                                         *)
(* A datetime kept by the program is represented by its age: the whole     *)
(* seconds (escalation) or whole minutes (sharing) since it was taken,     *)
(* capped where the code treats every larger age alike.  The fractional    *)
(* part of an elapsed time is an input of the step that reads the clock,   *)
(* in units of 1/Res.  The hour and minute a loop reads are inputs of its  *)
(* tick; the date is state.  One action is one run of the event loop       *)
(* between two awaits.                                                     *)
(***************************************************************************)
EXTENDS Integers, Sequences, FiniteSets, TLC

\* ---------------------------------------------------------------- bounds
\* clock resolution: units per second (datetime has sub-second precision)
Res == 2
\* number of task objects that can be alive at once
MaxTasks == 2
\* longest the conversation manager lets handle_user_message wait, in seconds
MaxAwait == 0
\* the days the calendar runs past the day of construction
MaxDay == 1
\* longest delay, in minutes, drawn for a meal or sharing task
MaxDelayMinutes == 1

\* ---------------------------------------------------------- configuration
\* time_settings.inactive_time_seconds (a configured value; default 7200)
inactive_time_seconds == 1
\* time_settings.max_response_delay_seconds (a configured value; default 3600)
max_response_delay_seconds == 2
\* time_settings.activity_start_hour and activity_end_hour (defaults)
activity_start_hour == 8
activity_end_hour == 23
\* time_settings.time_limit_enabled (default)
time_limit_enabled == TRUE
\* time_settings.max_consecutive_messages (a configured value; default 3)
max_consecutive_messages == 2

\* random_daily_activities: lunch_time, dinner_time (defaults)
lunch_start_hour == 11
lunch_end_hour == 13
dinner_start_hour == 17
dinner_end_hour == 19
\* the largest delay random.randint draws for a meal and for a sharing task
meal_delay_minutes == 30
sharing_delay_minutes == 10
\* daily_greetings: the configured times (defaults)
morning_hour == 8
morning_minute == 0
night_hour == 23
night_minute == 0

\* user ids are strings: sequences of characters
U1 == <<"1">>
U2 == <<"1", "_", "2">>
Users == {U1, U2}
Hours == 0 .. 23
MinutesOfHour == 0 .. 59

NoRecord == [none |-> TRUE]
NoTask == [none |-> TRUE]
Idle == [none |-> TRUE]
None == <<"None">>
NoEv == [op |-> "none"]
\* last_sharing_time.get(user_id) is None
Never == -1
NoShare == [none |-> TRUE]

Slots == 1 .. MaxTasks
AgeCap == inactive_time_seconds + max_response_delay_seconds

Min(a, b) == IF a <= b THEN a ELSE b
Max(a, b) == IF a >= b THEN a ELSE b

VARIABLES
    user_records,               \* user id -> NoRecord or [age, count]
    users_received_initiative,  \* set of user ids awaiting a reply
    last_initiative_messages,   \* set of user ids with a last-message entry
    whitelist_enabled,          \* whitelist.enabled
    whitelist_users,            \* whitelist.user_ids
    tasks,                      \* slot -> NoTask or the task object
    message_tasks,              \* _message_tasks: slots registered under their id
    loop,                       \* state of _check_inactive_conversations
    pending,                    \* user id -> Idle or a suspended handle_user_message
    final_sent,                 \* users sent their last escalation and silent since
    ev,                         \* the last step taken and what it returned
    plugin_message_tasks,       \* the plugin's own _message_tasks: slots of daily tasks
    today,                      \* the calendar date, in days since construction
    switches,                   \* the `enabled` switches the configuration sets
    min_interval_minutes,       \* daily_sharing.min_interval_minutes
    max_interval_minutes,       \* daily_sharing.max_interval_minutes
    today_lunch_users,          \* RandomDailyActivities.today_lunch_users
    today_dinner_users,         \* RandomDailyActivities.today_dinner_users
    last_sharing_time,          \* user id -> Never or the age in minutes
    daily_last_check_date,      \* RandomDailyActivities.last_check_date
    daily_task,                 \* state of _daily_check_loop
    morning_greeted_users,      \* DailyGreetings.morning_greeted_users
    night_greeted_users,        \* DailyGreetings.night_greeted_users
    greeting_last_check_date,   \* DailyGreetings.last_check_date
    greeting_loop,              \* state of _greeting_check_loop
    core_data,                  \* the three attributes get_data returns, records in full
    data_file,                  \* what umo_storage.json holds
    saved                       \* core_data as the last save read it

dailyVars == <<today_lunch_users, today_dinner_users, last_sharing_time,
               daily_last_check_date, daily_task>>
greetingVars == <<morning_greeted_users, night_greeted_users, greeting_last_check_date,
                  greeting_loop>>
sharingConfig == <<switches, min_interval_minutes, max_interval_minutes>>
storageVars == <<core_data, data_file, saved>>

\* what saving and loading never touch
running == <<user_records, users_received_initiative, last_initiative_messages,
             whitelist_enabled, whitelist_users, tasks, message_tasks, loop, pending,
             final_sent, plugin_message_tasks, today, sharingConfig, dailyVars,
             greetingVars>>

\* lunch_time.enabled, dinner_time.enabled, daily_sharing.enabled
lunch_enabled == "lunch_time" \in switches
dinner_enabled == "dinner_time" \in switches
sharing_enabled == "daily_sharing" \in switches

\* what the core's handlers and loop never touch
outside == <<plugin_message_tasks, today, sharingConfig, dailyVars, greetingVars,
            storageVars>>

vars == <<user_records, users_received_initiative, last_initiative_messages,
          whitelist_enabled, whitelist_users, tasks, message_tasks, loop,
          pending, final_sent, ev, outside>>

\* ------------------------------------------------------------- task ids
SendMessagePrefix == <<"s", "e", "n", "d", "_", "m", "e", "s", "s", "a", "g", "e", "_">>
Digits == <<"0", "1", "2", "3", "4", "5", "6", "7", "8", "9">>

\* f"send_message_{user_id}_{int(time.time())}"; the loop sleeps 10 s between
\* two ticks, so two live tasks never share a stamp: the slot stands for it
TaskId(user, slot) == SendMessagePrefix \o user \o <<"_">> \o <<Digits[slot + 1]>>

\* str.startswith
StartsWith(s, p) == Len(s) >= Len(p) /\ SubSeq(s, 1, Len(p)) = p

\* the prefix handle_user_message looks for
CancelPrefix(user) == SendMessagePrefix \o user \o <<"_">>

\* ------------------------------------------------- stored record values
\* the Python values a record holds
Str(s) == [t |-> "str", v |-> s]
IntValue(n) == [t |-> "int", v |-> n]
Datetime(second, microsecond) ==
    [t |-> "datetime", second |-> second, microsecond |-> microsecond]

\* a core with no records, as InitiativeDialogueCore.__init__ leaves it
EmptyData ==
    [user_records |-> [u \in {} |-> NoRecord],
     last_initiative_messages |-> [u \in {} |-> NoRecord],
     users_received_initiative |-> {}]

\* umo_storage.json does not exist
NoFile == [none |-> TRUE]

\* the data directory as the constructor finds it on a first start
InitStorage ==
    /\ core_data = EmptyData
    /\ data_file = NoFile
    /\ saved = EmptyData

\* ----------------------------------------------------------------- Init
\* the modules outside the core, as constructed
InitOutside ==
    /\ plugin_message_tasks = {}
    /\ today = 0
    /\ today_lunch_users = {}
    /\ today_dinner_users = {}
    /\ last_sharing_time = [u \in Users |-> Never]
    /\ daily_last_check_date = 0
    /\ daily_task = "running"
    /\ morning_greeted_users = {}
    /\ night_greeted_users = {}
    /\ greeting_last_check_date = 0

\* the plugin is constructed with no stored data, under a configuration whose
\* whitelist is enabled and lists one of the two users that write to the bot;
\* daily_greetings.enabled is left at its default, so no greeting loop starts
InitConstructed ==
    /\ InitOutside
    /\ switches = {"lunch_time", "dinner_time", "daily_sharing"}
    /\ min_interval_minutes = 1
    /\ max_interval_minutes = 2
    /\ greeting_loop = "off"
    /\ user_records = [u \in Users |-> NoRecord]
    /\ users_received_initiative = {}
    /\ last_initiative_messages = {}
    /\ whitelist_enabled = TRUE
    /\ whitelist_users = {U1}
    /\ tasks = [s \in Slots |-> NoTask]
    /\ message_tasks = {}
    /\ loop = "running"
    /\ pending = [u \in Users |-> Idle]
    /\ final_sent = {}
    /\ ev = NoEv

Init == InitConstructed /\ InitStorage

\* ------------------------------------------------------------ helpers
HasRecord(u) == user_records[u] # NoRecord
FreeSlots == {s \in Slots : tasks[s] = NoTask}
LiveSlots == Slots \ FreeSlots

\* the i-th free slot, lowest first
NthFree(i) == CHOOSE s \in FreeSlots : Cardinality({t \in FreeSlots : t < s}) = i - 1

\* every iteration order a dict holding the keys S can have
Orders(S) == {f \in [1 .. Cardinality(S) -> S] : \A i, j \in DOMAIN f : i # j => f[i] # f[j]}

\* `whitelist_enabled and user_id not in whitelist_users`
NotWhitelisted(u) == whitelist_enabled /\ u \notin whitelist_users

FinishKeepsEntry(s) ==
    /\ tasks' = [tasks EXCEPT ![s] = NoTask]
    /\ UNCHANGED <<message_tasks, plugin_message_tasks>>

\* the task is done: its done-callback remove_task pops its id from the registry
Finish(s) ==
    /\ tasks' = [tasks EXCEPT ![s] = NoTask]
    /\ message_tasks' = message_tasks \ {s}
    /\ plugin_message_tasks' = plugin_message_tasks \ {s}

\* --------------------------------------------------- handle_user_message
TasksToCancelNone(u) == {}

\* the registered tasks whose id starts with send_message_<user_id>_
TasksToCancel(u) ==
    {s \in message_tasks : StartsWith(TaskId(tasks[s].user, s), CancelPrefix(u))}

HandleBeginCancelsEvery(u) ==
    /\ pending[u] = Idle
    /\ tasks' = [s \in Slots |-> IF tasks[s] # NoTask /\ tasks[s].user = u THEN NoTask ELSE tasks[s]]
    /\ message_tasks' = {s \in message_tasks : tasks[s].user # u}
    /\ pending' = [pending EXCEPT ![u] = [age |-> 0]]
    /\ final_sent' = final_sent \ {u}
    /\ ev' = [op |-> "handle_begin", u |-> u,
              asleep |-> \E s \in LiveSlots :
                            tasks[s].user = u /\ tasks[s].st = "sleep" /\ tasks[s].rem > 0,
              responding |-> u \in users_received_initiative]
    /\ UNCHANGED <<user_records, users_received_initiative, last_initiative_messages,
                   whitelist_enabled, whitelist_users, loop, outside>>

\* handle_user_message up to its first await: it reads the clock, cancels the
\* tasks and pops them; a cancelled task ends at its await with CancelledError
\* before any other callback runs
HandleBegin(u) ==
    /\ pending[u] = Idle
    /\ tasks' = [s \in Slots |-> IF s \in TasksToCancel(u) THEN NoTask ELSE tasks[s]]
    /\ message_tasks' = message_tasks \ TasksToCancel(u)
    /\ pending' = [pending EXCEPT ![u] = [age |-> 0]]
    /\ final_sent' = final_sent \ {u}
    /\ ev' = [op |-> "handle_begin", u |-> u,
              asleep |-> \E s \in LiveSlots :
                            tasks[s].user = u /\ tasks[s].st = "sleep" /\ tasks[s].rem > 0,
              responding |-> u \in users_received_initiative]
    /\ UNCHANGED <<user_records, users_received_initiative, last_initiative_messages,
                   whitelist_enabled, whitelist_users, loop, outside>>

\* handle_user_message after the conversation manager answered (or raised: the two
\* awaits stand outside any try, so the exception leaves the handler); it returns
\* True after writing the record and False for a user the whitelist excludes
HandleEnd(u, ok) ==
    /\ pending[u] # Idle
    /\ pending' = [pending EXCEPT ![u] = Idle]
    /\ IF ok /\ ~NotWhitelisted(u)
       THEN user_records' = [user_records EXCEPT ![u] = [age |-> pending[u].age, count |-> 0]]
       ELSE UNCHANGED user_records
    /\ ev' = [op |-> "handle_end", u |-> u, raised |-> ~ok,
              ret |-> ok /\ ~NotWhitelisted(u)]
    /\ UNCHANGED <<users_received_initiative, last_initiative_messages, whitelist_enabled,
                   whitelist_users, tasks, message_tasks, loop, final_sent, outside>>

\* ------------------------------ modify_llm_request_for_initiative_response
Prompts == {None, <<"q">>}
excitement_addition == <<"excitement">>

\* `req.prompt or ""` followed by the addition
AugmentedPrompt(p) == (IF p = None THEN <<>> ELSE p) \o excitement_addition

\* the record the hook leaves for the user
HookRecord(u) ==
    IF HasRecord(u) THEN [user_records[u] EXCEPT !.count = 0, !.age = 0]
    ELSE IF u \in last_initiative_messages THEN [age |-> 0, count |-> 0]
    ELSE NoRecord

HookFiresAlways(u) == TRUE

\* whether the hook takes the user to be replying to a proactive message
HookFires(u) == u \in users_received_initiative

modify_llm_request(u, p) ==
    /\ IF HookFires(u)
       THEN /\ users_received_initiative' = users_received_initiative \ {u}
            /\ user_records' = [user_records EXCEPT ![u] = HookRecord(u)]
            /\ ev' = [op |-> "hook", u |-> u, before |-> p, after |-> AugmentedPrompt(p),
                      ret |-> TRUE]
       ELSE /\ UNCHANGED <<users_received_initiative, user_records>>
            /\ ev' = [op |-> "hook", u |-> u, before |-> p, after |-> p, ret |-> FALSE]
    /\ final_sent' = final_sent \ {u}
    /\ UNCHANGED <<last_initiative_messages, whitelist_enabled, whitelist_users, tasks,
                   message_tasks, loop, pending, outside>>

\* ------------------------------------------- _check_inactive_conversations
is_active_timeThroughEnd(hour) ==
    IF time_limit_enabled
    THEN (activity_start_hour <= hour /\ hour <= activity_end_hour) \/ (0 <= hour /\ hour < 7)
    ELSE TRUE

is_active_time(hour) ==
    IF time_limit_enabled
    THEN (activity_start_hour <= hour /\ hour < activity_end_hour) \/ (0 <= hour /\ hour < 7)
    ELSE TRUE

\* seconds_elapsed, in units: the whole seconds and the sub-second part
Elapsed(age, frac) == age * Res + frac

\* the two window tests of the scan
PastWindow(e) == e >= (inactive_time_seconds + max_response_delay_seconds) * Res
InWindow(e) ==
    /\ inactive_time_seconds * Res <= e
    /\ e < (inactive_time_seconds + max_response_delay_seconds) * Res

\* max_delay, in units
MaxDelay(e) ==
    Min((inactive_time_seconds + max_response_delay_seconds) * Res - e,
        max_response_delay_seconds * Res)

\* int(max_delay): whole seconds
IntMaxDelay(e) == MaxDelay(e) \div Res

\* random.randint(1, n) raises ValueError when n < 1
DrawFails(e) == IntMaxDelay(e) < 1

EvictedNone == {}

\* the records the scan pops, and the records it goes on to look at
Evicted == {u \in Users : HasRecord(u) /\ NotWhitelisted(u)}
Scanned == {u \in Users : HasRecord(u) /\ ~NotWhitelisted(u)}
Age(u) == user_records[u].age
ToReset(frac) == {u \in Scanned : PastWindow(Elapsed(Age(u), frac[u]))}
users_to_message(frac) == {u \in Scanned : InWindow(Elapsed(Age(u), frac[u]))}

\* how many users of the order are scheduled before a draw raises
ScheduledCount(order, frac) ==
    LET fails(i) == DrawFails(Elapsed(Age(order[i]), frac[order[i]]))
    IN  IF \E i \in DOMAIN order : fails(i)
        THEN (CHOOSE i \in DOMAIN order : fails(i) /\ \A j \in 1 .. i - 1 : ~fails(j)) - 1
        ELSE Len(order)

\* the sub-second parts the clock read can give: a record past the window shows
\* AgeCap whatever its sub-second part, an absent record has none
Fracs == {f \in [Users -> 0 .. Res - 1] :
             \A u \in Users : (~HasRecord(u) \/ Age(u) = AgeCap) => f[u] = 0}

\* the delays random.randint can give: one is drawn only for a user of
\* users_to_message
Delays(active, frac) ==
    {d \in [Users -> 1 .. max_response_delay_seconds] :
        \A u \in Users : (~active \/ u \notin users_to_message(frac)) => d[u] = 1}

\* one pass of the loop body; the draw raising ends the loop in its except branch
check_inactive(hour, frac, order, delay) ==
    /\ loop = "running"
    /\ IF is_active_time(hour) /\ (\E u \in Users : HasRecord(u))
       THEN LET n == ScheduledCount(order, frac)
                slotOf == [i \in 1 .. n |-> NthFree(i)]
                scheduled == {order[i] : i \in 1 .. n}
            IN  /\ n <= Cardinality(FreeSlots)
                /\ \A u \in scheduled : delay[u] <= IntMaxDelay(Elapsed(Age(u), frac[u]))
                /\ \A u \in Users \ scheduled : delay[u] = 1
                /\ tasks' = [s \in Slots |->
                                IF \E i \in 1 .. n : slotOf[i] = s
                                THEN LET u == order[CHOOSE i \in 1 .. n : slotOf[i] = s]
                                     IN  [user |-> u,
                                          fam |-> "send_message",
                                          count |-> user_records[u].count + 1,
                                          rem |-> delay[u],
                                          st |-> "sleep"]
                                ELSE tasks[s]]
                /\ message_tasks' = message_tasks \cup {slotOf[i] : i \in 1 .. n}
                /\ user_records' = [u \in Users |->
                                       IF u \in Evicted \/ u \in scheduled THEN NoRecord
                                       ELSE IF u \in ToReset(frac)
                                       THEN [user_records[u] EXCEPT !.age = 0]
                                       ELSE user_records[u]]
                /\ loop' = IF n < Len(order) THEN "backoff" ELSE "running"
                /\ ev' = [op |-> "tick", hour |-> hour, active |-> TRUE, frac |-> frac,
                          raised |-> n < Len(order), evicted |-> Evicted]
       ELSE /\ \A u \in Users : delay[u] = 1
            /\ UNCHANGED <<tasks, message_tasks, user_records, loop>>
            /\ ev' = [op |-> "tick", hour |-> hour, active |-> is_active_time(hour),
                      frac |-> frac, raised |-> FALSE, evicted |-> {}]
    /\ UNCHANGED <<users_received_initiative, last_initiative_messages, whitelist_enabled,
                   whitelist_users, pending, final_sent, outside>>

\* the except branch: sleep 5 s, then start_checking_inactive_conversations
RestartLoop ==
    /\ loop = "backoff"
    /\ loop' = "running"
    /\ ev' = NoEv
    /\ UNCHANGED <<user_records, users_received_initiative, last_initiative_messages,
                   whitelist_enabled, whitelist_users, tasks, message_tasks, pending,
                   final_sent, outside>>

\* ------------------------------------------------------ the send tasks
\* what the steps of a send task leave alone outside the core
rest == <<today, sharingConfig, dailyVars, greetingVars, storageVars>>

WakeIgnoresWhitelist(u) == FALSE

\* the pre-flight check after the sleep: _send_initiative_message,
\* _send_meal_message and _send_sharing_message read the same two attributes
WakeAborts(u) == NotWhitelisted(u)

\* the attributes main.py gives the plugin object, the `parent` of the modules
PluginAttributes ==
    {"context", "config", "data_dir", "data_file", "dialogue_core", "daily_greetings",
     "random_daily", "save_data_task"}

\* reading self.parent.<name>: AttributeError when the plugin has no such attribute
HasAttr(name) == name \in PluginAttributes

\* _send_greeting_message reads the whitelist off the plugin object, which has
\* no such attribute: the read raises and the task ends in its except branch
PreflightRaises(fam) ==
    fam \in {"greeting_morning", "greeting_night"} /\ ~HasAttr("whitelist_enabled")

TaskWakeAfterOthers(s) ==
    /\ \A t \in LiveSlots : tasks[t].st \notin {"gen", "send"}
    /\ tasks[s] # NoTask
    /\ tasks[s].st = "sleep" /\ tasks[s].rem = 0
    /\ IF PreflightRaises(tasks[s].fam) \/ WakeAborts(tasks[s].user)
       THEN Finish(s)
       ELSE /\ tasks' = [tasks EXCEPT ![s].st = "conv"]
            /\ UNCHANGED <<message_tasks, plugin_message_tasks>>
    /\ ev' = [op |-> "wake", u |-> tasks[s].user, fam |-> tasks[s].fam,
              aborted |-> WakeAborts(tasks[s].user)]
    /\ UNCHANGED <<user_records, users_received_initiative, last_initiative_messages,
                   whitelist_enabled, whitelist_users, loop, pending, final_sent, rest>>

\* asyncio.sleep(delay) is over: the whitelist check, then get_conversation
TaskWake(s) ==
    /\ tasks[s] # NoTask
    /\ tasks[s].st = "sleep" /\ tasks[s].rem = 0
    /\ IF PreflightRaises(tasks[s].fam) \/ WakeAborts(tasks[s].user)
       THEN Finish(s)
       ELSE /\ tasks' = [tasks EXCEPT ![s].st = "conv"]
            /\ UNCHANGED <<message_tasks, plugin_message_tasks>>
    /\ ev' = [op |-> "wake", u |-> tasks[s].user, fam |-> tasks[s].fam,
              aborted |-> WakeAborts(tasks[s].user)]
    /\ UNCHANGED <<user_records, users_received_initiative, last_initiative_messages,
                   whitelist_enabled, whitelist_users, loop, pending, final_sent, rest>>

\* the list the base prompt is drawn from, by the hour the task reads
prompt_list(hour) == IF 0 <= hour /\ hour < 7 THEN "night_prompts" ELSE "prompts"

adjusted_promptFromZero(count, max) ==
    IF count = max THEN "final"
    ELSE IF count > 0 THEN "waiting"
    ELSE "neutral"

\* which of the three wordings wraps the base prompt
adjusted_prompt(count, max) ==
    IF count = max THEN "final"
    ELSE IF count > 1 THEN "waiting"
    ELSE "neutral"

TaskConversationEndsAll(s, found, hour) ==
    /\ tasks[s] # NoTask
    /\ tasks[s].st = "conv"
    /\ IF found
       THEN /\ tasks' = [tasks EXCEPT ![s].st = "gen"]
            /\ UNCHANGED <<message_tasks, plugin_message_tasks>>
       ELSE /\ tasks' = [t \in Slots |-> NoTask]
            /\ message_tasks' = {}
            /\ plugin_message_tasks' = {}
    /\ ev' = NoEv
    /\ UNCHANGED <<user_records, users_received_initiative, last_initiative_messages,
                   whitelist_enabled, whitelist_users, loop, pending, final_sent, rest>>

\* get_conversation answered: nothing found ends the task, else text_chat is
\* called; the escalation send reads the hour here, to pick its prompt list
TaskConversation(s, found, hour) ==
    /\ tasks[s] # NoTask
    /\ tasks[s].st = "conv"
    /\ IF found
       THEN /\ tasks' = [tasks EXCEPT ![s].st = "gen"]
            /\ UNCHANGED <<message_tasks, plugin_message_tasks>>
       ELSE Finish(s)
    /\ ev' = IF found /\ tasks[s].fam = "send_message"
             THEN [op |-> "prompt", u |-> tasks[s].user, fam |-> tasks[s].fam,
                   hour |-> hour, list |-> prompt_list(hour),
                   variant |-> adjusted_prompt(tasks[s].count, max_consecutive_messages)]
             ELSE NoEv
    /\ UNCHANGED <<user_records, users_received_initiative, last_initiative_messages,
                   whitelist_enabled, whitelist_users, loop, pending, final_sent, rest>>

\* text_chat answered: an assistant reply is handed to send_message
TaskGenerated(s, role) ==
    /\ tasks[s] # NoTask
    /\ tasks[s].st = "gen"
    /\ IF role = "assistant"
       THEN /\ tasks' = [tasks EXCEPT ![s].st = "send"]
            /\ UNCHANGED <<message_tasks, plugin_message_tasks>>
       ELSE Finish(s)
    /\ ev' = NoEv
    /\ UNCHANGED <<user_records, users_received_initiative, last_initiative_messages,
                   whitelist_enabled, whitelist_users, loop, pending, final_sent, rest>>

\* whether the user is put back under monitoring after a send
ReArm(count, max) == count < max

TaskSentMarksAnyway(s, ok) ==
    /\ tasks[s] # NoTask
    /\ tasks[s].st = "send"
    /\ Finish(s)
    /\ users_received_initiative' = users_received_initiative \cup {tasks[s].user}
    /\ ev' = IF ok THEN [op |-> "sent", u |-> tasks[s].user, fam |-> tasks[s].fam] ELSE NoEv
    /\ UNCHANGED <<last_initiative_messages, user_records, final_sent, whitelist_enabled,
                   whitelist_users, loop, pending, rest>>

\* send_message answered: on success every task adds the user to the
\* awaiting-reply set; the escalation task then updates lines 400-419
TaskSent(s, ok) ==
    /\ tasks[s] # NoTask
    /\ tasks[s].st = "send"
    /\ Finish(s)
    /\ IF ok
       THEN LET u == tasks[s].user
                c == tasks[s].count
            IN  /\ users_received_initiative' = users_received_initiative \cup {u}
                /\ IF tasks[s].fam = "send_message"
                   THEN /\ last_initiative_messages' = last_initiative_messages \cup {u}
                        /\ user_records' =
                               IF ReArm(c, max_consecutive_messages)
                               THEN [user_records EXCEPT ![u] = [age |-> 0, count |-> c]]
                               ELSE user_records
                        /\ final_sent' = IF c = max_consecutive_messages
                                         THEN final_sent \cup {u} ELSE final_sent
                   ELSE UNCHANGED <<last_initiative_messages, user_records, final_sent>>
                /\ ev' = [op |-> "sent", u |-> u, fam |-> tasks[s].fam]
       ELSE /\ UNCHANGED <<users_received_initiative, last_initiative_messages,
                           user_records, final_sent>>
            /\ ev' = NoEv
    /\ UNCHANGED <<whitelist_enabled, whitelist_users, loop, pending, rest>>

\* --------------------------------------------------- _daily_check_loop
InLunch(hour) == lunch_start_hour <= hour /\ hour < lunch_end_hour
InDinner(hour) == dinner_start_hour <= hour /\ hour < dinner_end_hour

\* what the hour the loop reads makes of its two meal tests
MealReadings == {<<lunch_enabled /\ InLunch(h), dinner_enabled /\ InDinner(h)>> : h \in Hours}

\* `current_date != self.last_check_date`
DailyRolled == today # daily_last_check_date

LunchSetKept == today_lunch_users

\* the two sets after the date test of the pass
LunchSetNow == IF DailyRolled THEN {} ELSE today_lunch_users
DinnerSetNow == IF DailyRolled THEN {} ELSE today_dinner_users

EligibleUsersAgain(today_users_set) ==
    {u \in Users : HasRecord(u) /\ ~NotWhitelisted(u)}
    \cup {u \in last_initiative_messages : ~NotWhitelisted(u)}

\* _get_eligible_users: monitored users, then users of last_initiative_messages
EligibleUsers(today_users_set) ==
    {u \in Users : HasRecord(u) /\ u \notin today_users_set /\ ~NotWhitelisted(u)}
    \cup {u \in last_initiative_messages : u \notin today_users_set /\ ~NotWhitelisted(u)}

\* max(1, int(user_count * 0.3))
SelectionCount(n) == Max(1, (n * 3) \div 10)

SamplesAll(E) == {E}

\* random.sample(list(eligible_users), min(selection_count, user_count))
Samples(E) ==
    {S \in SUBSET E : Cardinality(S) = Min(SelectionCount(Cardinality(E)), Cardinality(E))}

\* random.randint(1, n) minutes
DelayMinutes(n) == 1 .. Min(n, MaxDelayMinutes)

\* minutes_since_last, in units: the whole minutes and the fraction
SharingMinutes(u, frac) == last_sharing_time[u] * Res + frac[u]

\* past this age every test of the sharing check gives the same answer
SharingCap == Max(min_interval_minutes, max_interval_minutes)

MinuteFracs ==
    {f \in [Users -> 0 .. Res - 1] :
        \A u \in Users : (last_sharing_time[u] = Never \/ last_sharing_time[u] = SharingCap
                          \/ ~HasRecord(u)) => f[u] = 0}

SharingEligibleAnyTime(frac) ==
    {u \in Users : HasRecord(u) /\ ~NotWhitelisted(u)}

\* the first loop of _check_daily_sharing
SharingEligible(frac) ==
    {u \in Users : /\ HasRecord(u)
                   /\ ~NotWhitelisted(u)
                   /\ \/ last_sharing_time[u] = Never
                      \/ SharingMinutes(u, frac) >= min_interval_minutes * Res}

\* a probability is kept as the fraction the code computes
Fraction(n, d) == [num |-> n, den |-> d]

SharingRatioNoOffset(m) == Fraction(m, (max_interval_minutes - min_interval_minutes) * Res)

\* ratio = (minutes_since_last - min) / (max - min)
SharingRatio(m) ==
    Fraction(m - min_interval_minutes * Res,
             (max_interval_minutes - min_interval_minutes) * Res)

\* the float division raises ZeroDivisionError
DivisionFails(last, m) ==
    /\ last # Never
    /\ m < max_interval_minutes * Res
    /\ SharingRatio(m).den = 0

\* probability, lines 296-309
SharingProbability(last, m) ==
    IF last = Never THEN Fraction(5, 10)
    ELSE IF m >= max_interval_minutes * Res THEN Fraction(8, 10)
    ELSE Fraction(SharingRatio(m).num * 8, SharingRatio(m).den * 10)

\* a fraction with a positive denominator
Normal(p) == IF p.den < 0 THEN Fraction(0 - p.num, 0 - p.den) ELSE p
Leq(p, q) == Normal(p).num * Normal(q).den <= Normal(q).num * Normal(p).den

\* random.random(), in tenths: a float in [0, 1)
RandomDraws == {0, 5, 9}

\* the draws of a pass: one for each user the second loop reaches
Draws(frac) ==
    {d \in [Users -> RandomDraws] :
        \A u \in Users : (~sharing_enabled \/ u \notin SharingEligible(frac)) => d[u] = 0}

\* `random.random() <= probability`
Fires(r, p) == Leq(Fraction(r, 10), p)

\* how many users of the order are handled before the division raises
SharedCount(order, frac) ==
    LET fails(i) == DivisionFails(last_sharing_time[order[i]], SharingMinutes(order[i], frac))
    IN  IF \E i \in DOMAIN order : fails(i)
        THEN (CHOOSE i \in DOMAIN order : fails(i) /\ \A j \in 1 .. i - 1 : ~fails(j)) - 1
        ELSE Len(order)

\* some order of a set
SeqOfSet(S) == CHOOSE f \in Orders(S) : TRUE

\* a new meal or sharing task
DailyTask(u, fam, delay) == [user |-> u, fam |-> fam, count |-> 0, rem |-> delay, st |-> "sleep"]

\* one pass of the loop body: the date test, _check_lunch_time,
\* _check_dinner_time and _check_daily_sharing
daily_check(meal, lunchSel, dinnerSel, frac, order, draw, delay) ==
    LET n == IF sharing_enabled THEN SharedCount(order, frac) ELSE 0
        handled == {order[i] : i \in 1 .. n}
        prob(u) == SharingProbability(last_sharing_time[u], SharingMinutes(u, frac))
        fire(u) == Fires(draw[u], prob(u))
        sharers == SelectSeq(SubSeq(order, 1, n), fire)
        lunchSeq == SeqOfSet(lunchSel)
        dinnerSeq == SeqOfSet(dinnerSel)
        new == [i \in 1 .. Len(lunchSeq) |-> DailyTask(lunchSeq[i], "lunch", delay[1])]
               \o [i \in 1 .. Len(dinnerSeq) |-> DailyTask(dinnerSeq[i], "dinner", delay[2])]
               \o [i \in 1 .. Len(sharers) |-> DailyTask(sharers[i], "sharing", delay[3])]
        slotOf == [i \in 1 .. Len(new) |-> NthFree(i)]
    IN  /\ daily_task = "running"
        /\ Len(new) <= Cardinality(FreeSlots)
        /\ daily_last_check_date' = today
        /\ today_lunch_users' = LunchSetNow \cup lunchSel
        /\ today_dinner_users' = DinnerSetNow \cup dinnerSel
        /\ last_sharing_time' = [u \in Users |->
                                    IF \E i \in 1 .. Len(sharers) : sharers[i] = u
                                    THEN 0 ELSE last_sharing_time[u]]
        /\ tasks' = [s \in Slots |->
                        IF \E i \in 1 .. Len(new) : slotOf[i] = s
                        THEN new[CHOOSE i \in 1 .. Len(new) : slotOf[i] = s]
                        ELSE tasks[s]]
        /\ plugin_message_tasks' = plugin_message_tasks \cup {slotOf[i] : i \in 1 .. Len(new)}
        /\ ev' = [op |-> "daily",
                  share |-> [u \in Users |->
                                IF u \in handled
                                THEN [first |-> last_sharing_time[u] = Never,
                                      m |-> SharingMinutes(u, frac),
                                      p |-> prob(u)]
                                ELSE NoShare],
                  raised |-> sharing_enabled /\ n < Len(order),
                  rolled |-> DailyRolled]
        /\ UNCHANGED <<user_records, users_received_initiative, last_initiative_messages,
                       whitelist_enabled, whitelist_users, message_tasks, loop, pending,
                       final_sent, today, sharingConfig, daily_task, greetingVars,
                       storageVars>>

\* ------------------------------------------------- _greeting_check_loop
\* what the hour and minute the loop reads make of its two time tests
GreetingReadings ==
    {<<h = morning_hour /\ m = morning_minute, h = night_hour /\ m = night_minute>> :
        h \in Hours, m \in MinutesOfHour}

\* the users _schedule_greeting_messages collects: monitored, not greeted yet
\* and not excluded by the whitelist; historical_users stays empty because
\* _load_historical_users finds no parent.last_initiative_messages
GreetingPool(greeted) ==
    {u \in Users : HasRecord(u) /\ u \notin greeted /\ ~NotWhitelisted(u)}

\* random.randint(0, max_delay) minutes
GreetingDelays == 0 .. MaxDelayMinutes

\* one pass of the loop body.  At a configured time the size test reads
\* self.parent.user_records outside any inner try: the plugin has no such
\* attribute, the read raises and the loop ends in its except branch
greeting_check(hit, delay) ==
    LET rolled == today # greeting_last_check_date
        morningNow == IF rolled THEN {} ELSE morning_greeted_users
        nightNow == IF rolled THEN {} ELSE night_greeted_users
        raises == (hit[1] \/ hit[2]) /\ ~HasAttr("user_records")
        morningSeq == SeqOfSet(IF hit[1] /\ ~raises THEN GreetingPool(morningNow) ELSE {})
        nightSeq == SeqOfSet(IF hit[2] /\ ~raises THEN GreetingPool(nightNow) ELSE {})
        new == [i \in 1 .. Len(morningSeq) |->
                    DailyTask(morningSeq[i], "greeting_morning", delay)]
               \o [i \in 1 .. Len(nightSeq) |->
                    DailyTask(nightSeq[i], "greeting_night", delay)]
        slotOf == [i \in 1 .. Len(new) |-> NthFree(i)]
    IN  /\ greeting_loop = "running"
        /\ Len(new) <= Cardinality(FreeSlots)
        /\ greeting_last_check_date' = today
        /\ morning_greeted_users' = morningNow \cup {morningSeq[i] : i \in 1 .. Len(morningSeq)}
        /\ night_greeted_users' = nightNow \cup {nightSeq[i] : i \in 1 .. Len(nightSeq)}
        /\ tasks' = [s \in Slots |->
                        IF \E i \in 1 .. Len(new) : slotOf[i] = s
                        THEN new[CHOOSE i \in 1 .. Len(new) : slotOf[i] = s]
                        ELSE tasks[s]]
        /\ plugin_message_tasks' = plugin_message_tasks \cup {slotOf[i] : i \in 1 .. Len(new)}
        /\ greeting_loop' = IF raises THEN "dead" ELSE "running"
        /\ ev' = [op |-> "greeting", morning |-> hit[1], night |-> hit[2], raised |-> raises]
        /\ UNCHANGED <<user_records, users_received_initiative, last_initiative_messages,
                       whitelist_enabled, whitelist_users, message_tasks, loop, pending,
                       final_sent, today, sharingConfig, dailyVars, storageVars>>

\* ---------------------------------------------------------- environment
\* one second passes; the conversation manager answers within MaxAwait
Advance ==
    /\ \A u \in Users : pending[u] # Idle => pending[u].age < MaxAwait
    /\ user_records' = [u \in Users |->
                           IF HasRecord(u)
                           THEN [user_records[u] EXCEPT !.age = Min(@ + 1, AgeCap)]
                           ELSE NoRecord]
    /\ tasks' = [s \in Slots |->
                    IF tasks[s] # NoTask /\ tasks[s].fam = "send_message" /\ tasks[s].rem > 0
                    THEN [tasks[s] EXCEPT !.rem = @ - 1]
                    ELSE tasks[s]]
    /\ pending' = [u \in Users |->
                      IF pending[u] # Idle
                      THEN [pending[u] EXCEPT !.age = @ + 1]
                      ELSE Idle]
    /\ ev' = NoEv
    /\ UNCHANGED <<users_received_initiative, last_initiative_messages, whitelist_enabled,
                   whitelist_users, message_tasks, loop, final_sent, outside>>

\* a minute boundary passes: the clocks counted in minutes move
AdvanceMinute ==
    /\ last_sharing_time' = [u \in Users |->
                                IF last_sharing_time[u] = Never THEN Never
                                ELSE Min(last_sharing_time[u] + 1, SharingCap)]
    /\ tasks' = [s \in Slots |->
                    IF tasks[s] # NoTask /\ tasks[s].fam # "send_message" /\ tasks[s].rem > 0
                    THEN [tasks[s] EXCEPT !.rem = @ - 1]
                    ELSE tasks[s]]
    /\ ev' = NoEv
    /\ UNCHANGED <<user_records, users_received_initiative, last_initiative_messages,
                   whitelist_enabled, whitelist_users, message_tasks, loop, pending,
                   final_sent, plugin_message_tasks, today, sharingConfig,
                   today_lunch_users, today_dinner_users, daily_last_check_date,
                   daily_task, greetingVars, storageVars>>

\* the date changes
Midnight ==
    /\ today < MaxDay
    /\ today' = today + 1
    /\ ev' = NoEv
    /\ UNCHANGED <<user_records, users_received_initiative, last_initiative_messages,
                   whitelist_enabled, whitelist_users, tasks, message_tasks, loop, pending,
                   final_sent, plugin_message_tasks, sharingConfig, dailyVars, greetingVars,
                   storageVars>>

\* the host removes a user from whitelist_users
RemoveFromWhitelist(u) ==
    /\ whitelist_enabled
    /\ u \in whitelist_users
    /\ whitelist_users' = whitelist_users \ {u}
    /\ ev' = NoEv
    /\ UNCHANGED <<user_records, users_received_initiative, last_initiative_messages,
                   whitelist_enabled, tasks, message_tasks, loop, pending, final_sent,
                   outside>>

\* the hours a clock read is taken at: the last hour inside and the first hour
\* outside each of the two ranges of is_active_time
HourReadings == {h \in Hours : h \in {6, 7, activity_end_hour - 1, activity_end_hour}}

\* get_conversation answers a waiting task; the hour counts for an escalation
\* send that goes on
ConversationAnswered(hours) ==
    \E s \in Slots, found \in BOOLEAN :
       \E hour \in (IF found /\ tasks[s] # NoTask /\ tasks[s].fam = "send_message"
                     THEN hours ELSE {0}) :
          TaskConversation(s, found, hour)

\* a pass of the escalation loop with every input it can read or draw; outside
\* the allowed hours the pass reads no record, so no elapsed time and no order
InactivityPass(hours) ==
    \E hour \in hours :
       \E frac \in (IF is_active_time(hour) THEN Fracs ELSE {[u \in Users |-> 0]}) :
          \E order \in (IF is_active_time(hour)
                         THEN Orders(users_to_message(frac)) ELSE {<<>>}),
             delay \in Delays(is_active_time(hour), frac) :
                 check_inactive(hour, frac, order, delay)

\* the core: inbound messages, the hook, the escalation loop and its tasks
Next ==
    \/ \E u \in Users : HandleBegin(u)
    \/ \E u \in Users, ok \in BOOLEAN : HandleEnd(u, ok)
    \/ \E u \in Users, p \in Prompts : modify_llm_request(u, p)
    \/ InactivityPass({activity_end_hour - 1, activity_end_hour})
    \/ RestartLoop
    \/ \E s \in Slots : TaskWake(s)
    \/ ConversationAnswered({activity_end_hour - 1, activity_end_hour})
    \/ \E s \in Slots, role \in {"assistant", "other", "raise"} : TaskGenerated(s, role)
    \/ \E s \in Slots, ok \in BOOLEAN : TaskSent(s, ok)
    \/ Advance

Spec == Init /\ [][Next]_vars

\* the state of the core after construction over stored data: one monitored
\* user, who is the one the whitelist lists
InitStored ==
    /\ user_records = [u \in Users |-> IF u = U1 THEN [age |-> 0, count |-> 0] ELSE NoRecord]
    /\ users_received_initiative = {}
    /\ last_initiative_messages = {}
    /\ whitelist_enabled = TRUE
    /\ whitelist_users = {U1}
    /\ tasks = [s \in Slots |-> NoTask]
    /\ message_tasks = {}
    /\ loop = "running"
    /\ pending = [u \in Users |-> Idle]
    /\ final_sent = {}
    /\ ev = NoEv
    /\ InitStorage

\* a pass of the meal and sharing loop with every input it can draw; a delay
\* is drawn only for a family that has a user to schedule
DailyPass ==
    \E meal \in MealReadings, frac \in MinuteFracs :
       \E lunchSel \in (IF meal[1] THEN Samples(EligibleUsers(LunchSetNow)) ELSE {{}}),
          dinnerSel \in (IF meal[2] THEN Samples(EligibleUsers(DinnerSetNow)) ELSE {{}}),
          order \in (IF sharing_enabled THEN Orders(SharingEligible(frac)) ELSE {<<>>}),
          draw \in Draws(frac) :
          \E delay \in {d \in DelayMinutes(meal_delay_minutes)
                                  \X DelayMinutes(meal_delay_minutes)
                                  \X DelayMinutes(sharing_delay_minutes) :
                            /\ lunchSel = {} => d[1] = 1
                            /\ dinnerSel = {} => d[2] = 1
                            /\ order = <<>> => d[3] = 1} :
              daily_check(meal, lunchSel, dinnerSel, frac, order, draw, delay)

\* ------------------------------------------------ the loops over the days
\* the meal loop and the greeting loop are enabled, daily sharing is off
InitDaily ==
    /\ InitStored
    /\ InitOutside
    /\ switches = {"lunch_time", "dinner_time", "daily_greetings"}
    /\ min_interval_minutes = 1
    /\ max_interval_minutes = 2
    /\ greeting_loop = "running"

NextDaily ==
    \/ DailyPass
    \/ \E hit \in GreetingReadings, delay \in GreetingDelays : greeting_check(hit, delay)
    \/ \E s \in Slots : TaskWake(s)
    \/ ConversationAnswered(HourReadings)
    \/ \E s \in Slots, role \in {"assistant", "other", "raise"} : TaskGenerated(s, role)
    \/ \E s \in Slots, ok \in BOOLEAN : TaskSent(s, ok)
    \/ AdvanceMinute
    \/ Midnight

SpecDaily == InitDaily /\ [][NextDaily]_vars

\* a pass of the loop that draws a delay of one minute for every task
ShortDelayPass ==
    \E meal \in MealReadings, frac \in MinuteFracs :
       \E lunchSel \in (IF meal[1] THEN Samples(EligibleUsers(LunchSetNow)) ELSE {{}}),
          dinnerSel \in (IF meal[2] THEN Samples(EligibleUsers(DinnerSetNow)) ELSE {{}}),
          order \in (IF sharing_enabled THEN Orders(SharingEligible(frac)) ELSE {<<>>}),
          draw \in Draws(frac) :
          daily_check(meal, lunchSel, dinnerSel, frac, order, draw, <<1, 1, 1>>)

\* a meal task is created before dinner_end_hour and sleeps at most
\* meal_delay_minutes, so the date changes with no task left
QuietMidnight == LiveSlots = {} /\ Midnight

\* the same loops on days when every send goes through: each meal task is
\* drawn a delay of one minute, the conversation is found, the provider answers
\* as assistant and the platform delivers
NextMarkers ==
    \/ ShortDelayPass
    \/ \E hit \in GreetingReadings : greeting_check(hit, 0)
    \/ \E s \in Slots : TaskWake(s)
    \/ ConversationAnswered({activity_end_hour - 1})
    \/ \E s \in Slots : TaskGenerated(s, "assistant")
    \/ \E s \in Slots : TaskSent(s, TRUE)
    \/ AdvanceMinute
    \/ QuietMidnight

SpecMarkers == InitDaily /\ [][NextMarkers]_vars

\* lunch and daily sharing are enabled and the date changes
InitRollover ==
    /\ InitStored
    /\ InitOutside
    /\ switches = {"lunch_time", "daily_sharing"}
    /\ min_interval_minutes = 1
    /\ max_interval_minutes = 2
    /\ greeting_loop = "off"

NextRollover ==
    \/ ShortDelayPass
    \/ \E s \in Slots : TaskWake(s)
    \/ ConversationAnswered({activity_end_hour - 1})
    \/ \E s \in Slots : TaskGenerated(s, "assistant")
    \/ \E s \in Slots : TaskSent(s, TRUE)
    \/ AdvanceMinute
    \/ QuietMidnight

SpecRollover == InitRollover /\ [][NextRollover]_vars

\* --------------------------------------------------------- daily sharing
\* the pairs (min_interval_minutes, max_interval_minutes) a configuration can set
SharingIntervals == {<<1, 2>>, <<1, 1>>, <<2, 1>>, <<0, 2>>}

\* only daily sharing is enabled
InitSharing ==
    /\ InitStored
    /\ InitOutside
    /\ switches = {"daily_sharing"}
    /\ \E c \in SharingIntervals : min_interval_minutes = c[1] /\ max_interval_minutes = c[2]
    /\ greeting_loop = "off"

NextSharing ==
    \/ DailyPass
    \/ \E s \in Slots : TaskWake(s)
    \/ ConversationAnswered(HourReadings)
    \/ \E s \in Slots, role \in {"assistant", "other", "raise"} : TaskGenerated(s, role)
    \/ \E s \in Slots, ok \in BOOLEAN : TaskSent(s, ok)
    \/ AdvanceMinute

SpecSharing == InitSharing /\ [][NextSharing]_vars

\* ------------------------------------------- the whitelist edited at run time
\* lunch and daily sharing are enabled next to the escalation loop
\* the configurations of the optional loops that run next to the escalation loop
WhitelistSwitches == {{"lunch_time"}, {"daily_sharing"}}

InitWhitelist ==
    /\ InitStored
    /\ InitOutside
    /\ switches \in WhitelistSwitches
    /\ min_interval_minutes = 1
    /\ max_interval_minutes = 1
    /\ greeting_loop = "off"

\* the escalation loop and the meal and sharing loop within one day, their
\* tasks, and the host removing users from whitelist_users; no inbound message
NextWhitelist ==
    \/ InactivityPass(HourReadings)
    \/ RestartLoop
    \/ DailyPass
    \/ \E s \in Slots : TaskWake(s)
    \/ ConversationAnswered(HourReadings)
    \/ \E s \in Slots, role \in {"assistant", "other", "raise"} : TaskGenerated(s, role)
    \/ \E s \in Slots, ok \in BOOLEAN : TaskSent(s, ok)
    \/ \E u \in Users : RemoveFromWhitelist(u)
    \/ Advance
    \/ AdvanceMinute

SpecWhitelist == InitWhitelist /\ [][NextWhitelist]_vars

\* ------------------------------------------- records restored at start-up
\* the plugin starts on a data file an earlier run wrote, possibly under a
\* larger max_consecutive_messages: the record of the monitored user comes
\* back with the consecutive_count it was stored with
InitRestored ==
    /\ \E c \in 0 .. max_consecutive_messages + 1 :
          user_records = [u \in Users |->
                             IF u = U1 THEN [age |-> 0, count |-> c] ELSE NoRecord]
    /\ users_received_initiative = {}
    /\ last_initiative_messages = {}
    /\ whitelist_enabled = TRUE
    /\ whitelist_users = {U1}
    /\ tasks = [s \in Slots |-> NoTask]
    /\ message_tasks = {}
    /\ loop = "running"
    /\ pending = [u \in Users |-> Idle]
    /\ final_sent = {}
    /\ ev = NoEv
    /\ InitStorage
    /\ InitOutside
    /\ switches = {"lunch_time"}
    /\ min_interval_minutes = 1
    /\ max_interval_minutes = 1
    /\ greeting_loop = "off"

SpecRestored == InitRestored /\ [][NextWhitelist]_vars

\* the same start with a whitelist nobody edits and conversations that always
\* resolve: a task that ends without delivering has failed in text_chat or in
\* send_message
NextFailing ==
    \/ InactivityPass({activity_end_hour - 1})
    \/ RestartLoop
    \/ ShortDelayPass
    \/ \E s \in Slots : TaskWake(s)
    \/ \E s \in Slots : TaskConversation(s, TRUE, activity_end_hour - 1)
    \/ \E s \in Slots, role \in {"assistant", "other", "raise"} : TaskGenerated(s, role)
    \/ \E s \in Slots, ok \in BOOLEAN : TaskSent(s, ok)
    \/ Advance
    \/ AdvanceMinute

SpecFailing == InitRestored /\ [][NextFailing]_vars

\* ------------------------------------------------ two monitored users
\* both users are listed and monitored; the optional loops are off
InitPair ==
    /\ user_records = [u \in Users |-> [age |-> 0, count |-> 0]]
    /\ users_received_initiative = {}
    /\ last_initiative_messages = {}
    /\ whitelist_enabled = TRUE
    /\ whitelist_users = Users
    /\ tasks = [s \in Slots |-> NoTask]
    /\ message_tasks = {}
    /\ loop = "running"
    /\ pending = [u \in Users |-> Idle]
    /\ final_sent = {}
    /\ ev = NoEv
    /\ InitStorage
    /\ InitOutside
    /\ switches = {}
    /\ min_interval_minutes = 1
    /\ max_interval_minutes = 1
    /\ greeting_loop = "off"

\* the escalation loop and the tasks of both users, with sends that go through
\* once the conversation resolves
NextPair ==
    \/ InactivityPass({activity_end_hour - 1})
    \/ RestartLoop
    \/ \E s \in Slots : TaskWake(s)
    \/ \E s \in Slots, found \in BOOLEAN : TaskConversation(s, found, activity_end_hour - 1)
    \/ \E s \in Slots : TaskGenerated(s, "assistant")
    \/ \E s \in Slots : TaskSent(s, TRUE)
    \/ Advance

SpecPair == InitPair /\ [][NextPair]_vars

\* the same with the inbound messages of both users
NextInbound ==
    \/ \E u \in Users : HandleBegin(u)
    \/ \E u \in Users : HandleEnd(u, TRUE)
    \/ NextPair

SpecInbound == InitPair /\ [][NextInbound]_vars

\* the configurations in which one fixed-time family runs next to the
\* escalation loop
FamilySwitches == {{"lunch_time"}, {"dinner_time"}, {"daily_sharing"}, {"daily_greetings"}}

InitFamilies ==
    /\ InitStored
    /\ InitOutside
    /\ switches \in FamilySwitches
    /\ min_interval_minutes = 1
    /\ max_interval_minutes = 1
    /\ greeting_loop = IF "daily_greetings" \in switches THEN "running" ELSE "off"

\* a pass of the meal and sharing loop a whole number of minutes after the
\* last sharing of every user, with a delay of one minute for every task
WholeMinutePass ==
    LET frac == [u \in Users |-> 0]
    IN  \E meal \in MealReadings :
           \E lunchSel \in (IF meal[1] THEN Samples(EligibleUsers(LunchSetNow)) ELSE {{}}),
              dinnerSel \in (IF meal[2] THEN Samples(EligibleUsers(DinnerSetNow)) ELSE {{}}),
              order \in (IF sharing_enabled THEN Orders(SharingEligible(frac)) ELSE {<<>>}),
              draw \in Draws(frac) :
              daily_check(meal, lunchSel, dinnerSel, frac, order, draw, <<1, 1, 1>>)

\* the loops within one day when every send goes through, and the messages
\* of the monitored user
NextMessages ==
    \/ \E u \in whitelist_users : HandleBegin(u)
    \/ \E u \in whitelist_users : HandleEnd(u, TRUE)
    \/ InactivityPass({activity_end_hour - 1})
    \/ WholeMinutePass
    \/ \E hit \in GreetingReadings : greeting_check(hit, 0)
    \/ \E s \in Slots : TaskWake(s)
    \/ ConversationAnswered({activity_end_hour - 1})
    \/ \E s \in Slots : TaskGenerated(s, "assistant")
    \/ \E s \in Slots : TaskSent(s, TRUE)
    \/ Advance
    \/ AdvanceMinute

SpecMessages == InitFamilies /\ [][NextMessages]_vars

\* get_conversation answers a waiting task
FoundOrNot(s) == \E found \in BOOLEAN : TaskConversation(s, found, activity_end_hour - 1)

\* -------------------------------------------------- the lunch window
\* lunch is enabled; the pool is made of monitored users and of users of the
\* stored last_initiative_messages, and the whitelist lists any of them
InitLunch ==
    /\ InitOutside
    /\ InitStorage
    /\ switches = {"lunch_time"}
    /\ min_interval_minutes = 1
    /\ max_interval_minutes = 1
    /\ greeting_loop = "off"
    /\ user_records \in [Users -> {NoRecord, [age |-> 0, count |-> 0]}]
    /\ users_received_initiative = {}
    /\ last_initiative_messages \in SUBSET Users
    /\ whitelist_enabled = TRUE
    /\ whitelist_users \in SUBSET Users
    /\ tasks = [s \in Slots |-> NoTask]
    /\ message_tasks = {}
    /\ loop = "running"
    /\ pending = [u \in Users |-> Idle]
    /\ final_sent = {}
    /\ ev = NoEv

\* a pass of the meal loop at an hour inside the lunch window
LunchPass ==
    \E frac \in MinuteFracs :
       \E lunchSel \in Samples(EligibleUsers(LunchSetNow)), draw \in Draws(frac) :
          \E delay \in {d \in DelayMinutes(meal_delay_minutes) \X {1} \X {1} :
                          lunchSel = {} => d[1] = 1} :
             daily_check(<<TRUE, FALSE>>, lunchSel, {}, frac, <<>>, draw, delay)

\* the meal loop and its tasks while the hour stays inside the lunch window
NextLunch ==
    \/ LunchPass
    \/ \E s \in Slots : TaskWake(s)
    \/ \E s \in Slots : FoundOrNot(s)
    \/ \E s \in Slots, role \in {"assistant", "other", "raise"} : TaskGenerated(s, role)
    \/ \E s \in Slots, ok \in BOOLEAN : TaskSent(s, ok)
    \/ AdvanceMinute

\* the meal loop wakes from asyncio.sleep(10) again and again
SpecLunch == InitLunch /\ [][NextLunch]_vars /\ WF_vars(LunchPass)

\* the task object whose send_message never returns; its text_chat may not
\* return either
HungSlot == CHOOSE s \in Slots : \A t \in Slots : s <= t
OtherSlots == Slots \ {HungSlot}

NextHang ==
    \/ InactivityPass({activity_end_hour - 1})
    \/ RestartLoop
    \/ \E s \in Slots : TaskWake(s)
    \/ \E s \in Slots : FoundOrNot(s)
    \/ \E s \in Slots : TaskGenerated(s, "assistant")
    \/ \E s \in OtherSlots : TaskSent(s, TRUE)
    \/ Advance

\* the event loop runs every callback that is ready: time passes, the loop
\* wakes from its sleep, and the tasks whose calls return go on; nothing is
\* assumed of the calls of the task in HungSlot
SpecHang ==
    /\ InitPair
    /\ [][NextHang]_vars
    /\ WF_vars(Advance)
    /\ WF_vars(InactivityPass({activity_end_hour - 1}))
    /\ WF_vars(RestartLoop)
    /\ \A s \in OtherSlots :
          /\ WF_vars(TaskWake(s))
          /\ WF_vars(FoundOrNot(s))
          /\ WF_vars(TaskGenerated(s, "assistant"))
          /\ WF_vars(TaskSent(s, TRUE))

\* ------------------------------------------------------- persistence
\* the seconds field and the microsecond field of a timestamp; the date, the
\* hour and the minute are fixed-width fields that isoformat always writes
Timestamps == {Datetime(7, 0), Datetime(7, 42), Datetime(30, 120000)}

\* the decimal digits of n, zero-padded to width w
Pad(n, w) == [i \in 1 .. w |-> Digits[((n \div (10 ^ (w - i))) % 10) + 1]]

isoformatSeconds(t) == Pad(t.second, 2)

\* datetime.isoformat: the fraction is written only when it is not zero
isoformat(t) ==
    Pad(t.second, 2)
        \o (IF t.microsecond # 0 THEN <<".">> \o Pad(t.microsecond, 6) ELSE <<>>)

IsDigit(c) == \E i \in 1 .. 10 : Digits[i] = c
DigitValue(c) == (CHOOSE i \in 1 .. 10 : Digits[i] = c) - 1

RECURSIVE ParseDigits(_)
ParseDigits(s) ==
    IF s = <<>> THEN 0
    ELSE ParseDigits(SubSeq(s, 1, Len(s) - 1)) * 10 + DigitValue(s[Len(s)])

ValueError == [t |-> "ValueError"]

\* datetime.fromisoformat: two digits of seconds, then nothing or a point and
\* six digits; anything else raises ValueError
fromisoformat(s) ==
    IF /\ Len(s) \in {2, 9}
       /\ \A i \in 1 .. 2 : IsDigit(s[i])
       /\ Len(s) = 9 => s[3] = "." /\ \A i \in 4 .. 9 : IsDigit(s[i])
       /\ ParseDigits(SubSeq(s, 1, 2)) < 60
    THEN Datetime(ParseDigits(SubSeq(s, 1, 2)),
                  IF Len(s) = 9 THEN ParseDigits(SubSeq(s, 4, 9)) ELSE 0)
    ELSE ValueError

\* _prepare_records_for_save: a copy of every record, its datetime timestamp
\* replaced by the ISO string
prepare_records_for_save(records) ==
    [u \in DOMAIN records |->
        [k \in DOMAIN records[u] |->
            IF k = "timestamp" /\ records[u][k].t = "datetime"
            THEN Str(isoformat(records[u][k]))
            ELSE records[u][k]]]

\* json.dump writes str as a string and int as a number, and raises TypeError
\* on any other value
JsonSerializable(records) ==
    \A u \in DOMAIN records : \A k \in DOMAIN records[u] : records[u][k].t \in {"str", "int"}

JsonValue(v) == IF v.t = "str" THEN [j |-> "string", v |-> v.v] ELSE [j |-> "number", v |-> v.v]

JsonRecords(records) ==
    [u \in DOMAIN records |-> [k \in DOMAIN records[u] |-> JsonValue(records[u][k])]]

json_dump(data_to_save) ==
    [user_records |-> JsonRecords(data_to_save.user_records),
     last_initiative_messages |-> JsonRecords(data_to_save.last_initiative_messages),
     users_received_initiative |->
         [i \in 1 .. Len(data_to_save.users_received_initiative) |->
             [j |-> "string", v |-> data_to_save.users_received_initiative[i]]]]

\* json.load gives a string back as str and a number as int
PythonValue(x) == IF x.j = "string" THEN Str(x.v) ELSE IntValue(x.v)

PythonRecords(object) ==
    [u \in DOMAIN object |-> [k \in DOMAIN object[u] |-> PythonValue(object[u][k])]]

json_load(file) ==
    [user_records |-> PythonRecords(file.user_records),
     last_initiative_messages |-> PythonRecords(file.last_initiative_messages),
     users_received_initiative |->
         [i \in 1 .. Len(file.users_received_initiative) |->
             file.users_received_initiative[i].v]]

\* the file was opened for writing and json.dump raised: no valid JSON in it
Truncated == [truncated |-> TRUE]

\* _save_data_to_storage; order is the order list() gives the set
save_data_to_storage(order) ==
    LET data_to_save ==
            [user_records |-> prepare_records_for_save(core_data.user_records),
             last_initiative_messages |->
                 prepare_records_for_save(core_data.last_initiative_messages),
             users_received_initiative |-> order]
    IN  /\ order \in Orders(core_data.users_received_initiative)
        /\ data_file' =
               IF /\ JsonSerializable(data_to_save.user_records)
                  /\ JsonSerializable(data_to_save.last_initiative_messages)
               THEN json_dump(data_to_save)
               ELSE Truncated
        /\ saved' = core_data
        /\ UNCHANGED core_data

\* a save on its own: the periodic one
SaveData(order) ==
    /\ save_data_to_storage(order)
    /\ ev' = [op |-> "save"]
    /\ UNCHANGED running

\* the load loops over the records of a stored dictionary: an ISO string under
\* 'timestamp' becomes a datetime, or the current time when it does not parse
LoadedRecords(records, now) ==
    [u \in DOMAIN records |->
        [k \in DOMAIN records[u] |->
            IF k = "timestamp" /\ records[u][k].t = "str"
            THEN IF fromisoformat(records[u][k].v) = ValueError
                 THEN now
                 ELSE fromisoformat(records[u][k].v)
            ELSE records[u][k]]]

\* the plugin is constructed again: a new core, then _load_data_from_storage
LoadData(now) ==
    /\ core_data' =
           IF data_file = NoFile \/ data_file = Truncated
           THEN EmptyData
           ELSE LET stored_data == json_load(data_file)
                IN  [user_records |-> LoadedRecords(stored_data.user_records, now),
                     last_initiative_messages |->
                         LoadedRecords(stored_data.last_initiative_messages, now),
                     users_received_initiative |->
                         {stored_data.users_received_initiative[i] :
                             i \in 1 .. Len(stored_data.users_received_initiative)}]
    /\ ev' = [op |-> "load", existed |-> data_file # NoFile]
    /\ UNCHANGED <<data_file, saved, running>>

\* conversation ids and message origins are strings the host hands out
ConversationId(u) == <<"c", "_">> \o u
MessageOrigin(u) == <<"q", "q", ":">> \o u

\* the records the core writes: handle_user_message writes no count, the hook
\* and the re-arm after a send write one
UserRecordValues(u) ==
    {[conversation_id |-> Str(ConversationId(u)),
      timestamp |-> t,
      unified_msg_origin |-> Str(MessageOrigin(u))] : t \in Timestamps}
    \cup {[conversation_id |-> Str(ConversationId(u)),
           timestamp |-> t,
           unified_msg_origin |-> Str(MessageOrigin(u)),
           consecutive_count |-> IntValue(c)] :
              t \in Timestamps, c \in 0 .. max_consecutive_messages - 1}

\* the entry a delivered escalation leaves
LastMessageValues(u) ==
    {[conversation_id |-> Str(ConversationId(u)),
      unified_msg_origin |-> Str(MessageOrigin(u)),
      timestamp |-> t] : t \in Timestamps}

\* the dictionaries over some of the users with a value of V[u] for each u
Dictionaries(V) ==
    UNION {{d \in [S -> UNION {V[u] : u \in S}] : \A u \in S : d[u] \in V[u]} :
              S \in SUBSET Users}

\* a running core holds any records its handlers can have written
InitPersist ==
    /\ InitConstructed
    /\ core_data \in
          {[user_records |-> r, last_initiative_messages |-> l,
            users_received_initiative |-> s] :
              r \in Dictionaries([u \in Users |-> UserRecordValues(u)]),
              l \in Dictionaries([u \in Users |-> LastMessageValues(u)]),
              s \in SUBSET Users}
    /\ data_file = NoFile
    /\ saved = EmptyData

\* saves, by the timer or by terminate, and restarts of the plugin
NextPersist ==
    \/ \E order \in Orders(core_data.users_received_initiative) : SaveData(order)
    \/ \E now \in Timestamps : LoadData(now)

SpecPersist == InitPersist /\ [][NextPersist]_vars

\* what a data file edited or written outside the plugin can hold under
\* 'timestamp': an ISO string, or a string that is no ISO datetime (no digits,
\* seconds out of range, a fraction cut short)
StoredTimestamps ==
    {JsonValue(Str(isoformat(t))) : t \in Timestamps}
    \cup {JsonValue(Str(bad)) : bad \in {<<"x">>, <<"6", "1">>, <<"0", "7", ".", "4">>}}

StoredRecordValues(u) ==
    {[conversation_id |-> JsonValue(Str(ConversationId(u))),
      timestamp |-> ts,
      unified_msg_origin |-> JsonValue(Str(MessageOrigin(u)))] : ts \in StoredTimestamps}

\* or a number, such as seconds since the epoch
EpochRecord(u) ==
    [conversation_id |-> JsonValue(Str(ConversationId(u))),
     timestamp |-> JsonValue(IntValue(7)),
     unified_msg_origin |-> JsonValue(Str(MessageOrigin(u)))]

\* the plugin is constructed over a data file it did not write itself
InitEdited ==
    /\ InitConstructed
    /\ core_data = EmptyData
    /\ saved = EmptyData
    /\ \/ data_file \in
             {[user_records |-> r, last_initiative_messages |-> l,
               users_received_initiative |-> <<>>] :
                 r \in Dictionaries([u \in Users |-> StoredRecordValues(u)]),
                 l \in Dictionaries([u \in Users |-> StoredRecordValues(u)])}
       \/ \E S \in SUBSET Users \ {{}} :
             data_file = [user_records |-> [u \in S |-> EpochRecord(u)],
                          last_initiative_messages |-> [u \in {} |-> NoRecord],
                          users_received_initiative |-> <<>>]

SpecEdited == InitEdited /\ [][NextPersist]_vars

\* `current_time - record['timestamp']` of the tick gives a timedelta only for
\* a datetime; any other value raises TypeError
ElapsedRaises(record) == record["timestamp"].t # "datetime"

\* ------------------------------------------------------------- shutdown
\* stop_checking_inactive_conversations cancels the escalation loop and every
\* unfinished task the core's own _message_tasks holds; a cancelled task ends
\* at its await and its done-callback takes its entry out
stop_checking_inactive_conversations ==
    /\ loop' = IF loop = "scheduled" THEN loop ELSE "cancelled"
    /\ tasks' = [s \in Slots |-> IF s \in message_tasks THEN NoTask ELSE tasks[s]]
    /\ message_tasks' = {}

\* DailyGreetings.stop and RandomDailyActivities.stop cancel the loop task
\* each of them holds, when it is there and not done
StopLoop(state) == IF state = "running" THEN "cancelled" ELSE state

\* terminate: a save, then the three stops; none of them suspends
terminate(order) ==
    /\ loop # "cancelled"
    /\ save_data_to_storage(order)
    /\ stop_checking_inactive_conversations
    /\ greeting_loop' = StopLoop(greeting_loop)
    /\ daily_task' = StopLoop(daily_task)
    /\ ev' = [op |-> "terminate"]
    /\ UNCHANGED <<user_records, users_received_initiative, last_initiative_messages,
                   whitelist_enabled, whitelist_users, pending, final_sent,
                   plugin_message_tasks, today, sharingConfig, today_lunch_users,
                   today_dinner_users, last_sharing_time, daily_last_check_date,
                   morning_greeted_users, night_greeted_users, greeting_last_check_date>>

\* the escalation loop and the lunch loop run with one monitored user
InitShutdown ==
    /\ InitStored
    /\ InitOutside
    /\ switches = {"lunch_time"}
    /\ min_interval_minutes = 1
    /\ max_interval_minutes = 1
    /\ greeting_loop = "off"

\* the two loops and their tasks within one day, the user's messages while the
\* plugin is loaded, and the host unloading the plugin
NextShutdown ==
    \/ \E u \in whitelist_users : loop # "cancelled" /\ HandleBegin(u)
    \/ \E u \in whitelist_users, ok \in BOOLEAN : HandleEnd(u, ok)
    \/ InactivityPass(HourReadings)
    \/ RestartLoop
    \/ DailyPass
    \/ \E s \in Slots : TaskWake(s)
    \/ ConversationAnswered(HourReadings)
    \/ \E s \in Slots, role \in {"assistant", "other", "raise"} : TaskGenerated(s, role)
    \/ \E s \in Slots, ok \in BOOLEAN : TaskSent(s, ok)
    \/ \E order \in Orders(core_data.users_received_initiative) : terminate(order)
    \/ Advance
    \/ AdvanceMinute

SpecShutdown == InitShutdown /\ [][NextShutdown]_vars

\* ------------------------------------------- the start of the three loops
\* __init__ hands the three start coroutines to asyncio.create_task: each loop
\* is "scheduled" until its start coroutine runs, and message_check_task,
\* greeting_task and daily_task are None until then
InitLaunch ==
    /\ user_records = [u \in Users |-> IF u = U1 THEN [age |-> 0, count |-> 0] ELSE NoRecord]
    /\ users_received_initiative = {}
    /\ last_initiative_messages = {}
    /\ whitelist_enabled = TRUE
    /\ whitelist_users = {U1}
    /\ tasks = [s \in Slots |-> NoTask]
    /\ message_tasks = {}
    /\ loop = "scheduled"
    /\ pending = [u \in Users |-> Idle]
    /\ final_sent = {}
    /\ ev = NoEv
    /\ InitStorage
    /\ plugin_message_tasks = {}
    /\ today = 0
    /\ today_lunch_users = {}
    /\ today_dinner_users = {}
    /\ last_sharing_time = [u \in Users |-> Never]
    /\ daily_last_check_date = 0
    /\ daily_task = "scheduled"
    /\ morning_greeted_users = {}
    /\ night_greeted_users = {}
    /\ greeting_last_check_date = 0
    /\ greeting_loop = "scheduled"
    /\ switches = {"lunch_time", "daily_greetings"}
    /\ min_interval_minutes = 1
    /\ max_interval_minutes = 1

LoopFamilies == {"core", "greetings", "daily"}

\* start_checking_inactive_conversations, DailyGreetings.start and
\* RandomDailyActivities.start: each creates its loop task and keeps it
StartLoop(fam) ==
    /\ \/ /\ fam = "core"
          /\ loop = "scheduled"
          /\ loop' = "running"
          /\ UNCHANGED <<greeting_loop, daily_task>>
       \/ /\ fam = "greetings"
          /\ greeting_loop = "scheduled"
          /\ greeting_loop' = IF "daily_greetings" \in switches THEN "running" ELSE "off"
          /\ UNCHANGED <<loop, daily_task>>
       \/ /\ fam = "daily"
          /\ daily_task = "scheduled"
          /\ daily_task' = "running"
          /\ UNCHANGED <<loop, greeting_loop>>
    /\ ev' = [op |-> "start", fam |-> fam]
    /\ UNCHANGED <<user_records, users_received_initiative, last_initiative_messages,
                   whitelist_enabled, whitelist_users, tasks, message_tasks, pending,
                   final_sent, plugin_message_tasks, today, sharingConfig,
                   today_lunch_users, today_dinner_users, last_sharing_time,
                   daily_last_check_date, morning_greeted_users, night_greeted_users,
                   greeting_last_check_date, storageVars>>

\* the start coroutines, the three loops and their tasks within one day, and
\* the host unloading the plugin at any moment after __init__
NextLaunch ==
    \/ \E fam \in LoopFamilies : StartLoop(fam)
    \/ \E order \in Orders(core_data.users_received_initiative) : terminate(order)
    \/ InactivityPass(HourReadings)
    \/ RestartLoop
    \/ ShortDelayPass
    \/ \E hit \in GreetingReadings : greeting_check(hit, 0)
    \/ \E s \in Slots : TaskWake(s)
    \/ ConversationAnswered({activity_end_hour - 1})
    \/ \E s \in Slots : TaskGenerated(s, "assistant")
    \/ \E s \in Slots : TaskSent(s, TRUE)
    \/ Advance
    \/ AdvanceMinute

SpecLaunch == InitLaunch /\ [][NextLaunch]_vars

\* ------------------------------------------------- the prompt of a send
\* the counts a task can carry and the caps a configuration can set
Counts == 1 .. max_consecutive_messages + 2

\* the plugin as constructed, and a send about to build its prompt with
\* consecutive_count c under the cap m, reading the hour h
InitPrompt ==
    /\ \E c \in Counts, m \in Counts, h \in Hours :
          ev = [op |-> "send", count |-> c, max |-> m, hour |-> h]
    /\ InitOutside
    /\ InitStorage
    /\ switches = {}
    /\ min_interval_minutes = 1
    /\ max_interval_minutes = 2
    /\ greeting_loop = "off"
    /\ user_records = [u \in Users |-> NoRecord]
    /\ users_received_initiative = {}
    /\ last_initiative_messages = {}
    /\ whitelist_enabled = TRUE
    /\ whitelist_users = {U1}
    /\ tasks = [s \in Slots |-> NoTask]
    /\ message_tasks = {}
    /\ loop = "running"
    /\ pending = [u \in Users |-> Idle]
    /\ final_sent = {}

\* the choices the send makes from its count, the cap and the hour: the prompt
\* list, the wording, and after delivery whether the user is monitored again
ChoosePrompt ==
    /\ ev.op = "send"
    /\ ev' = [op |-> "chosen", count |-> ev.count, max |-> ev.max, hour |-> ev.hour,
              list |-> prompt_list(ev.hour),
              variant |-> adjusted_prompt(ev.count, ev.max),
              rearm |-> ReArm(ev.count, ev.max)]
    /\ UNCHANGED <<user_records, users_received_initiative, last_initiative_messages,
                   whitelist_enabled, whitelist_users, tasks, message_tasks, loop,
                   pending, final_sent, outside>>

SpecPrompt == InitPrompt /\ [][ChoosePrompt]_vars

\* ------------------------------------------------------------- claims
TasksOf(u) == {s \in LiveSlots : tasks[s].user = u}

\* the tasks a step created
Created(u) == {s \in Slots : tasks[s] = NoTask /\ tasks'[s] # NoTask /\ tasks'[s].user = u}

\* C1: every user has at most one unfinished escalation task at any time
C1_AtMostOneTask == \A u \in Users : Cardinality(TasksOf(u)) <= 1

\* C2: once handle_user_message(u) has run up to its first await, no task of u
\* is left asleep: each was cancelled before its body ran, so it calls neither
\* the generator nor the sink
C2_CancelledBeforeBody ==
    ev.op = "handle_begin" =>
        \A s \in TasksOf(ev.u) : tasks[s].st # "sleep" /\ s \notin message_tasks

\* C2 witness: an inbound message met a task of its user whose delay was running
C2_Witness == ev.op = "handle_begin" /\ ev.asleep /\ TasksOf(ev.u) = {}

\* C3: after the send with count max_consecutive_messages was delivered to a
\* user, nothing more is delivered to or scheduled for that user until a
\* message of the user arrives
C3_SilentAfterFinal ==
    [][/\ (ev'.op = "sent" /\ ev'.fam = "send_message") => ev'.u \notin final_sent
       /\ ev'.op = "tick" => \A u \in final_sent : Created(u) = {}]_vars

\* C4: a task whose user is not on the enabled whitelist while its delay runs
\* never gets past the check that follows the sleep: the only steps it takes
\* are the countdown and its end, the wake-up reports an abort, and nothing
\* is delivered to that user by it
C4_AbortsAtPreflight ==
    [][/\ \A s \in Slots :
            (/\ tasks[s] # NoTask
             /\ tasks[s].st = "sleep"
             /\ NotWhitelisted(tasks[s].user)
             /\ tasks'[s] # tasks[s])
            => \/ tasks'[s] = NoTask
               \/ tasks'[s] = [tasks[s] EXCEPT !.rem = @ - 1]
       /\ (ev'.op = "wake" /\ NotWhitelisted(ev'.u))
            => /\ ev'.aborted
               /\ UNCHANGED <<users_received_initiative, last_initiative_messages,
                              user_records>>]_vars

\* C4 witness: a task scheduled for a listed user woke up after the user was
\* taken off the list, and ended there
C4_Witness == ev.op = "wake" /\ ev.aborted /\ ev.u \notin whitelist_users

\* C5: in a tick during allowed hours a scanned record past the window is reset
\* to the tick's time and gets no task, a record inside the window gets a task
C5_WindowRule ==
    [][(ev'.op = "tick" /\ ev'.active) =>
          \A u \in Scanned :
              /\ PastWindow(Elapsed(Age(u), ev'.frac[u])) =>
                     /\ user_records'[u] = [user_records[u] EXCEPT !.age = 0]
                     /\ Created(u) = {}
              /\ InWindow(Elapsed(Age(u), ev'.frac[u])) => Created(u) # {}]_vars

\* C6: the draw of a tick never fails, and every delay d it draws satisfies
\* 1 <= d <= min(inactive + max_delay - elapsed, max_delay)
C6_DelayDrawn ==
    [][ev'.op = "tick" =>
          /\ ~ev'.raised
          /\ \A u \in Users : \A s \in Created(u) :
                 /\ 1 <= tasks'[s].rem
                 /\ tasks'[s].rem * Res <= MaxDelay(Elapsed(Age(u), ev'.frac[u]))]_vars

\* C10: the hook fires exactly for a user in the awaiting-reply set; then it
\* appends the instruction once and removes the user, else it changes neither
\* the prompt nor the state; only a delivered proactive message puts a user
\* (back) into the set, so two calls in a row augment at most once
C10_HookOneShot ==
    [][/\ ev'.op = "hook" =>
             IF ev'.u \in users_received_initiative
             THEN /\ ev'.ret
                  /\ ev'.after = (IF ev'.before = None THEN <<>> ELSE ev'.before)
                                     \o excitement_addition
                  /\ users_received_initiative' = users_received_initiative \ {ev'.u}
             ELSE /\ ~ev'.ret
                  /\ ev'.after = ev'.before
                  /\ UNCHANGED <<user_records, users_received_initiative,
                                 last_initiative_messages, tasks, message_tasks>>
       /\ \A u \in users_received_initiative' \ users_received_initiative :
             ev'.op = "sent" /\ ev'.u = u]_vars

\* C10 witness: the hook fired for a user who was awaiting a reply
C10_Witness == ev.op = "hook" /\ ev.ret /\ ev.u \notin users_received_initiative

\* the sharing probabilities a pass computed, one for each user it handled
Shares == {ev.share[u] : u \in {v \in Users : ev.share[v] # NoShare}}

\* C8: the probability _check_daily_sharing computes for a user is 0.5 when
\* the user has no previous share, 0.8 when the minutes since the last share
\* are at least max_interval_minutes, and otherwise
\* 0.8 * (minutes - min_interval_minutes) / (max_interval_minutes - min_interval_minutes),
\* which is 0 at exactly min_interval_minutes, does not decrease as the minutes
\* grow, and lies within [0, 0.8]; the division never has a zero denominator
C8_SharingProbability ==
    ev.op = "daily" =>
        /\ ~ev.raised
        /\ \A e \in Shares :
              LET width == (max_interval_minutes - min_interval_minutes) * Res
              IN  /\ e.first => e.p = Fraction(5, 10)
                  /\ (~e.first /\ e.m >= max_interval_minutes * Res) => e.p = Fraction(8, 10)
                  /\ (~e.first /\ e.m < max_interval_minutes * Res) =>
                        /\ width # 0
                        /\ e.p.num * 10 * width
                              = 8 * (e.m - min_interval_minutes * Res) * e.p.den
                        /\ e.m = min_interval_minutes * Res => e.p.num = 0
                        /\ \A later \in e.m .. (SharingCap + 1) * Res :
                              Leq(e.p, SharingProbability(0, later))
                  /\ e.p.den # 0
                  /\ Leq(Fraction(0, 1), e.p)
                  /\ Leq(e.p, Fraction(8, 10))

\* C8 witness: a pass interpolated a probability strictly between 0 and 0.8
\* for a user who was shared with before
C8_Witness ==
    /\ ev.op = "daily"
    /\ \E e \in Shares : /\ ~e.first
                         /\ e.m < max_interval_minutes * Res
                         /\ e.p.num > 0
                         /\ ~Leq(Fraction(8, 10), e.p)

\* C7: the first pass of the greeting loop on a new date leaves in the two
\* greeted sets only users it schedules itself, the first pass of the meal
\* loop on a new date does the same for the lunch and dinner sets, and the
\* pass of the greeting loop at morning_hour:morning_minute keeps the loop
\* alive and schedules a morning greeting for every monitored, listed user
\* not yet greeted on that date, on the first date as on every later one
C7_RolloverRegreets ==
    [][/\ ev'.op = "greeting" =>
            /\ today # greeting_last_check_date =>
                  /\ \A u \in morning_greeted_users' :
                        \E s \in Created(u) : tasks'[s].fam = "greeting_morning"
                  /\ \A u \in night_greeted_users' :
                        \E s \in Created(u) : tasks'[s].fam = "greeting_night"
            /\ ev'.morning =>
                  /\ greeting_loop' = "running"
                  /\ \A u \in GreetingPool(IF today # greeting_last_check_date
                                            THEN {} ELSE morning_greeted_users) :
                        /\ u \in morning_greeted_users'
                        /\ \E s \in Created(u) : tasks'[s].fam = "greeting_morning"
       /\ (ev'.op = "daily" /\ DailyRolled) =>
            /\ \A u \in today_lunch_users' : \E s \in Created(u) : tasks'[s].fam = "lunch"
            /\ \A u \in today_dinner_users' : \E s \in Created(u) : tasks'[s].fam = "dinner"]_vars

\* C9: when a newly constructed plugin has loaded a file that
\* _save_data_to_storage wrote, the core holds what it held at that save: the
\* same users in user_records, last_initiative_messages and
\* users_received_initiative, and for every record the same conversation id,
\* message origin, consecutive_count and timestamp
C9_RoundTrip == (ev.op = "load" /\ ev.existed) => core_data = saved

\* C9 witness: a load brought back a timestamp with microseconds and one
\* without, a record with a count, and a user awaiting a reply
C9_Witness ==
    /\ ev.op = "load" /\ ev.existed
    /\ \E u \in DOMAIN core_data.user_records :
          /\ core_data.user_records[u].timestamp.microsecond # 0
          /\ "consecutive_count" \in DOMAIN core_data.user_records[u]
    /\ \E u \in DOMAIN core_data.last_initiative_messages :
          core_data.last_initiative_messages[u].timestamp.microsecond = 0
    /\ core_data.users_received_initiative # {}

\* C11: the activity intake returns whether the user's awaiting-reply flag was set
\* and clears the flag in the step that reads it
C11_ReturnsAndClearsFlag ==
    [][/\ ev'.op = "handle_begin" => ev'.u \notin users_received_initiative'
       /\ (ev'.op = "handle_end" /\ ~ev'.raised)
              => (ev'.ret <=> ev'.u \in users_received_initiative)]_vars

\* C12: once terminate has run, no deferred send task of any family is left
\* in flight and no proactive message is delivered
C12_ShutdownSilences ==
    loop = "cancelled" => /\ LiveSlots = {}
                          /\ ev.op # "sent"

\* the slots of the unfinished tasks of the escalation family, and of the others
PendingTasks(core) ==
    {s \in LiveSlots : (tasks[s].fam = "send_message") = core}

\* C14: a task that completed, failed or was cancelled is out of its registry,
\* and a task still pending is in it: each registry holds exactly its pending tasks
C14_RegistryIsPending ==
    /\ message_tasks = PendingTasks(TRUE)
    /\ plugin_message_tasks = PendingTasks(FALSE)

\* a task has completed and left its registry while the entry of another task,
\* still pending, stays
C14_Witness ==
    /\ ev.op = "sent"
    /\ message_tasks \cup plugin_message_tasks # {}

\* C15: an escalation send whose delay has elapsed and which waits on the
\* conversation lookup, the generation or the message sink is not touched by
\* the cancellation an inbound message of its user performs
C15_BegunSendSurvives ==
    [][ev'.op = "handle_begin"
          => \A s \in LiveSlots :
                (/\ tasks[s].fam = "send_message"
                 /\ tasks[s].user = ev'.u
                 /\ tasks[s].st \in {"conv", "gen", "send"})
                   => tasks'[s] = tasks[s]]_vars

\* C16: while the plugin is loaded none of the three scheduler loops is stopped
\* for good: after an exception in a tick a loop is ticking or in its backoff
C16_LoopsKeepTicking ==
    loop # "cancelled"
       => /\ loop \in {"running", "backoff"}
          /\ daily_task = "running"
          /\ greeting_loop \in {"off", "running", "backoff"}

\* C17: a failure of the conversation lookup or creation inside
\* handle_user_message does not leave the handler
C17_ErrorsContained ==
    ev.op = "handle_end" => ~ev.raised

\* the hours in which the configuration allows proactive messages
AllowedHour(h) ==
    \/ ~time_limit_enabled
    \/ activity_start_hour <= h /\ h < activity_end_hour
    \/ 0 <= h /\ h < 7

\* C18: a tick registers a task for a user only if the hour it read is allowed
\* and the user's record is inside the window; a tick at an hour that is not
\* allowed schedules, resets and evicts nothing
C18_TickGuards ==
    [][ev'.op = "tick" =>
          /\ \A u \in Users :
                 Created(u) # {} =>
                     /\ AllowedHour(ev'.hour)
                     /\ HasRecord(u)
                     /\ inactive_time_seconds * Res <= Elapsed(Age(u), ev'.frac[u])
                     /\ Elapsed(Age(u), ev'.frac[u])
                            < (inactive_time_seconds + max_response_delay_seconds) * Res
          /\ ~AllowedHour(ev'.hour) =>
                 UNCHANGED <<user_records, tasks, message_tasks>>]_vars

\* C18 witness: a tick outside the allowed hours met a record inside the window
\* and scheduled nothing
C18_Witness ==
    /\ ev.op = "tick"
    /\ ~AllowedHour(ev.hour)
    /\ \E u \in Users, f \in 0 .. Res - 1 :
           /\ HasRecord(u)
           /\ InWindow(Elapsed(Age(u), f))
    /\ LiveSlots = {}

\* C19: a tick creates no task for a record whose stored consecutive_count has
\* reached max_consecutive_messages
C19_CapRespected ==
    [][ev'.op = "tick" =>
          \A u \in Users :
              (HasRecord(u) /\ user_records[u].count >= max_consecutive_messages)
                 => Created(u) = {}]_vars

\* C20: an escalation send that goes on to generate its content, after its
\* delay, does so at an hour in which the scheduler would have scheduled it
C20_SendRevalidatesHour ==
    (ev.op = "prompt" /\ ev.fam = "send_message") => AllowedHour(ev.hour)

\* C21: when handle_user_message has completed for a whitelisted user, also
\* with a tick of the escalation loop between its cancellation and its record
\* update, the user's record is fresh with no consecutive count and no
\* escalation task of the user is pending
C21_MessageWinsRace ==
    (ev.op = "handle_end" /\ ~ev.raised /\ ev.ret)
       => /\ HasRecord(ev.u)
          /\ user_records[ev.u].count = 0
          /\ user_records[ev.u].age <= MaxAwait
          /\ TasksOf(ev.u) = {}

\* C22: a record leaves user_records only by the eviction of a user the
\* enabled whitelist does not list
C22_RecordStays ==
    [][\A u \in Users :
          (HasRecord(u) /\ user_records'[u] = NoRecord) => NotWhitelisted(u)]_vars

\* the escalation task whose send_message was delivered in this step
Delivered(s) ==
    /\ tasks[s] # NoTask
    /\ tasks[s].fam = "send_message"
    /\ tasks[s].st = "send"
    /\ tasks'[s] = NoTask
    /\ ev'.op = "sent"

\* C23: a delivered escalation send with count c below the cap leaves the user
\* awaiting a reply, with a last-message entry and a record of the send time
\* and count c; and c is above the count stored before, so that the stored
\* count follows the number of unanswered sends
C23_SendUpdatesState ==
    [][\A s \in Slots :
          (Delivered(s) /\ tasks[s].count < max_consecutive_messages)
             => LET u == tasks[s].user
                    c == tasks[s].count
                IN  /\ u \in users_received_initiative'
                    /\ u \in last_initiative_messages'
                    /\ user_records'[u] = [age |-> 0, count |-> c]
                    /\ HasRecord(u) => user_records[u].count < c]_vars

\* C24: count = cap gives the final-attempt wording and no re-arming, a count
\* strictly between 1 and the cap the still-waiting wording, count 1 below the
\* cap the neutral wording; the base prompt comes from the late-night list
\* exactly when the hour read is one of 0..6
C24_PromptVariant ==
    ev.op = "chosen" =>
        /\ ev.count = ev.max => (ev.variant = "final" /\ ~ev.rearm)
        /\ (1 < ev.count /\ ev.count < ev.max) => ev.variant = "waiting"
        /\ (ev.count = 1 /\ 1 < ev.max) => ev.variant = "neutral"
        /\ ev.list = "night_prompts" <=> ev.hour \in 0 .. 6

\* C24 witness: a send strictly between the first and the last, late at night
C24_Witness ==
    /\ ev.op = "chosen"
    /\ 1 < ev.count /\ ev.count < ev.max
    /\ ev.hour \in 0 .. 6

\* the four daily markers, named by the family of the task they guard
DailyMarkers == {"lunch", "dinner", "greeting_morning", "greeting_night"}

\* the set of users a marker holds, and the date the set was last reset for
MarkerSet(fam) ==
    CASE fam = "lunch" -> today_lunch_users
      [] fam = "dinner" -> today_dinner_users
      [] fam = "greeting_morning" -> morning_greeted_users
      [] fam = "greeting_night" -> night_greeted_users

MarkerDate(fam) ==
    IF fam \in {"lunch", "dinner"} THEN daily_last_check_date ELSE greeting_last_check_date

\* the slots in which this step creates a task of the family for the user
ScheduledIn(u, fam) ==
    {s \in Slots : /\ tasks[s] = NoTask
                   /\ tasks'[s] # NoTask
                   /\ tasks'[s].user = u
                   /\ tasks'[s].fam = fam}

\* C25: per marker and user at most one deferred send task per calendar day:
\* a step creates at most one task of a marker for a user, only for a user the
\* marker does not hold for the current date, and it puts the user in the
\* marker; a user leaves a marker only when the date has advanced
C25_OncePerDay ==
    [][\A u \in Users, fam \in DailyMarkers :
          /\ Cardinality(ScheduledIn(u, fam)) <= 1
          /\ ScheduledIn(u, fam) # {}
                => /\ ~(u \in MarkerSet(fam) /\ MarkerDate(fam) = today)
                   /\ u \in MarkerSet(fam)'
                   /\ MarkerDate(fam)' = today
          /\ (u \in MarkerSet(fam) /\ u \notin MarkerSet(fam)')
                => MarkerDate(fam) # today]_vars

\* C25 witness: on a later day a user holds the lunch marker of that day, the
\* lunch task is over, and a pass of the loop has run since
C25_Witness ==
    /\ ev.op = "daily"
    /\ today > 0
    /\ daily_last_check_date = today
    /\ \E u \in today_lunch_users :
          \A s \in Slots : tasks[s] # NoTask => ~(tasks[s].user = u /\ tasks[s].fam = "lunch")

\* the users the greeting is meant for: tracked or known from the history of
\* initiative messages, and not excluded by the whitelist
KnownUsers ==
    {u \in Users : (HasRecord(u) \/ u \in last_initiative_messages) /\ ~NotWhitelisted(u)}

\* C26: after a pass of the greeting loop at the configured morning (night)
\* time every whitelisted user that is tracked or known from the history of
\* initiative messages has a morning (night) greeting task
C26_GreetsKnownUsers ==
    ev.op = "greeting" =>
        \A u \in KnownUsers :
            /\ ev.morning => \E s \in TasksOf(u) : tasks[s].fam = "greeting_morning"
            /\ ev.night => \E s \in TasksOf(u) : tasks[s].fam = "greeting_night"

\* C27: the pass that creates a sharing task for a user sets the user's last
\* sharing time to the time of the pass in the same step, creates one task
\* only, and does so only for a user never shared with before or last shared
\* with at least min_interval_minutes earlier
C27_SharingCooldown ==
    [][\A u \in Users :
          ScheduledIn(u, "sharing") # {}
             => /\ Cardinality(ScheduledIn(u, "sharing")) = 1
                /\ last_sharing_time'[u] = 0
                /\ ev'.op = "daily"
                /\ ev'.share[u] # NoShare
                /\ \/ ev'.share[u].first /\ last_sharing_time[u] = Never
                   \/ /\ last_sharing_time[u] # Never
                      /\ ev'.share[u].m >= min_interval_minutes * Res]_vars

\* C27 witness: a pass has just scheduled a share for a user shared with
\* before, under a positive minimum interval
C27_Witness ==
    /\ ev.op = "daily"
    /\ min_interval_minutes > 0
    /\ \E u \in Users :
          /\ ev.share[u] # NoShare
          /\ ~ev.share[u].first
          /\ last_sharing_time[u] = 0
          /\ \E s \in TasksOf(u) : tasks[s].fam = "sharing" /\ tasks[s].st = "sleep"

\* the users for whom this step creates a task of the family
ScheduledUsers(fam) == {u \in Users : ScheduledIn(u, fam) # {}}

\* the step is the first pass of the meal and sharing loop on a new date
RolloverPass == DailyRolled /\ daily_last_check_date' = today

\* C28 as claimed: the first pass on a new date leaves in the lunch and dinner
\* sets only the users it schedules itself, and leaves no last sharing time
\* but that of a share it schedules itself
C28_RolloverClearsCooldown ==
    [][RolloverPass
          => /\ today_lunch_users' = ScheduledUsers("lunch")
             /\ today_dinner_users' = ScheduledUsers("dinner")
             /\ \A u \in Users : last_sharing_time'[u] \in {Never, 0}]_vars

\* C28 amended: the first pass on a new date leaves in the lunch and dinner
\* sets only the users it schedules itself, and it keeps the last sharing time
\* of every user it schedules no share for
C28_RolloverKeepsCooldown ==
    [][RolloverPass
          => /\ today_lunch_users' = ScheduledUsers("lunch")
             /\ today_dinner_users' = ScheduledUsers("dinner")
             /\ \A u \in Users \ ScheduledUsers("sharing") :
                   last_sharing_time'[u] = last_sharing_time[u]]_vars

\* C28 witness: the first pass on a new date has run; it schedules no lunch
\* and so leaves the lunch set empty, and a user shared with on an earlier
\* day still has that last sharing time
C28_Witness ==
    /\ ev.op = "daily"
    /\ ev.rolled
    /\ today_lunch_users = {}
    /\ \E u \in Users : last_sharing_time[u] # Never /\ last_sharing_time[u] > 0

\* the step writes the record of the user: it leaves a record that differs
\* from the one before and carries the time of the step
RecordWritten(u) ==
    /\ user_records'[u] # NoRecord
    /\ user_records'[u] # user_records[u]
    /\ user_records'[u].age = 0

\* C29: no step creates or updates the record of a user the enabled
\* whitelist excludes
C29_NoRecordOffWhitelist ==
    [][\A u \in Users : NotWhitelisted(u) => ~RecordWritten(u)]_vars

\* C30: a tick at an allowed hour that finds records leaves no record of a
\* user the enabled whitelist excludes and creates no task for such a user,
\* so the records after the tick are all of listed users
C30_TickEvicts ==
    [][(ev'.op = "tick" /\ ev'.active /\ (\E u \in Users : HasRecord(u)))
          => /\ \A u \in Users :
                   NotWhitelisted(u) => (user_records'[u] = NoRecord /\ Created(u) = {})
             /\ \A u \in Users : user_records'[u] # NoRecord => u \in whitelist_users']_vars

\* C30 witness: a tick has just removed the record of a user taken off the
\* whitelist
C30_Witness ==
    /\ ev.op = "tick"
    /\ ev.evicted # {}
    /\ \A u \in ev.evicted : ~HasRecord(u) /\ TasksOf(u) = {}

\* the step ends the task of the slot in text_chat (no assistant reply, or an
\* exception) or in send_message (an exception)
FailedSend(s) ==
    /\ tasks[s] # NoTask
    /\ tasks'[s] # tasks[s]
    /\ \/ tasks[s].st = "gen" /\ ~(tasks'[s] # NoTask /\ tasks'[s].st = "send")
       \/ tasks[s].st = "send" /\ ev'.op # "sent"

\* C31: a send that fails in the generator or in the sink is over in that
\* step, with nothing scheduled in its place, and the step leaves the
\* awaiting-reply set, last_initiative_messages and the records as they were;
\* a task waits for text_chat only after get_conversation and for send_message
\* only after text_chat, so it makes each call at most once
C31_FailedSendLeavesState ==
    [][\A s \in Slots :
          /\ FailedSend(s)
                => /\ tasks'[s] = NoTask
                   /\ \A u \in Users : Created(u) = {}
                   /\ UNCHANGED <<users_received_initiative, last_initiative_messages,
                                  user_records>>
          /\ (tasks'[s] # NoTask /\ tasks'[s] # tasks[s] /\ tasks'[s].st = "gen")
                => (tasks[s] # NoTask /\ tasks[s].st = "conv")
          /\ (tasks'[s] # NoTask /\ tasks'[s] # tasks[s] /\ tasks'[s].st = "send")
                => (tasks[s] # NoTask /\ tasks[s].st = "gen")]_vars

\* C31 witness: the escalation task of the user is over and has left no
\* trace: no record, no entry in the awaiting-reply set or in
\* last_initiative_messages
C31_Witness ==
    /\ ~HasRecord(U1)
    /\ TasksOf(U1) = {}
    /\ U1 \notin users_received_initiative
    /\ U1 \notin last_initiative_messages
    /\ final_sent = {}

\* the step ends the task of the slot at get_conversation, which found nothing
Unresolved(s) ==
    /\ tasks[s] # NoTask
    /\ tasks[s].st = "conv"
    /\ tasks'[s] = NoTask

\* C32: a send whose conversation does not resolve ends before text_chat is
\* called and delivers nothing, and the step leaves every other task, the
\* registry entries of every other task and the shared state as they were
C32_UnresolvedAbortsAlone ==
    [][\A s \in Slots :
          /\ Unresolved(s)
                => /\ ev'.op # "sent"
                   /\ \A t \in Slots \ {s} : tasks'[t] = tasks[t]
                   /\ message_tasks' = message_tasks \ {s}
                   /\ plugin_message_tasks' = plugin_message_tasks \ {s}
                   /\ UNCHANGED <<users_received_initiative, last_initiative_messages,
                                  user_records>>
          /\ (tasks[s] # NoTask /\ tasks[s].st = "conv" /\ tasks'[s] # tasks[s])
                => (tasks'[s] = NoTask \/ tasks'[s].st = "gen")]_vars

\* C32 witness: the task of one user is gone with no trace of a send, while a
\* task of the other user is still pending in the registry
C32_Witness ==
    \E u \in Users, t \in message_tasks :
       /\ ~HasRecord(u)
       /\ TasksOf(u) = {}
       /\ u \notin users_received_initiative
       /\ tasks[t].user # u
       /\ tasks[t] # NoTask

\* C33: after a load of an existing data file the core holds a record for
\* every stored record, each with a datetime under 'timestamp', so that the
\* tick computes the elapsed time of each without raising
C33_LoadRepairsTimestamps ==
    (ev.op = "load" /\ ev.existed /\ data_file # Truncated)
       => /\ DOMAIN core_data.user_records = DOMAIN data_file.user_records
          /\ \A u \in DOMAIN core_data.user_records :
                /\ core_data.user_records[u]["timestamp"].t = "datetime"
                /\ ~ElapsedRaises(core_data.user_records[u])

\* a send task is blocked in text_chat or in send_message
Hanging == tasks[HungSlot] # NoTask /\ tasks[HungSlot].st \in {"gen", "send"}

\* C34: while a send task is blocked in the content generator or the message
\* sink the escalation loop goes on ticking, a tick at an allowed hour creates
\* a task for every user it finds in the window, and every other task runs to
\* its end
C34_HangStallsOnlyItself ==
    /\ [][(Hanging /\ ev'.op = "tick" /\ ev'.active /\ ~ev'.raised)
             => \A u \in users_to_message(ev'.frac) : Created(u) # {}]_vars
    /\ Hanging ~> (Hanging /\ ev.op = "tick")
    /\ \A t \in OtherSlots : (Hanging /\ tasks[t] # NoTask) ~> (tasks[t] = NoTask)

\* C34 witness: with the task of one user blocked, the task of the other user,
\* created after it, has been delivered
C34_Witness ==
    /\ Hanging
    /\ ev.op = "sent"
    /\ ev.u # tasks[HungSlot].user

\* handle_user_message of u runs up to its first await
Inbound(u) == pending[u] = Idle /\ pending'[u] # Idle

\* the pending tasks of the fixed-time families
DailySlots == {s \in LiveSlots : tasks[s].fam # "send_message"}

\* C35: an inbound message of u leaves every pending greeting, lunch, dinner
\* and sharing task as it is, in the plugin's registry and outside the
\* registry handle_user_message scans; the tasks it ends are escalation
\* tasks
C35_InboundKeepsDailyTasks ==
    [][\A u \in Users : Inbound(u) =>
          /\ \A s \in DailySlots :
                /\ tasks'[s] = tasks[s]
                /\ s \notin message_tasks /\ s \notin message_tasks'
                /\ s \in plugin_message_tasks /\ s \in plugin_message_tasks'
          /\ \A s \in LiveSlots : tasks'[s] # tasks[s] => tasks[s].fam = "send_message"]_vars

\* C35 witness: the message of a user arrived while a daily task of that
\* user was pending, and the task is still pending
C35_Witness ==
    /\ ev.op = "handle_begin"
    /\ ev.asleep
    /\ message_tasks = {}
    /\ \E s \in DailySlots : tasks[s].user = ev.u /\ s \in plugin_message_tasks

\* C36: an inbound message of one user leaves the pending escalation tasks of
\* every other user, and their registry entries, as they are
C36_InboundSparesOtherUsers ==
    [][\A a \in Users : Inbound(a) =>
          \A s \in message_tasks :
             tasks[s].user # a => tasks'[s] = tasks[s] /\ s \in message_tasks']_vars

\* no loop of the three families is running or waiting to restart, and the
\* last step was not a pass of one of them
LoopsQuiet ==
    /\ loop \notin {"running", "backoff"}
    /\ greeting_loop \notin {"running", "backoff"}
    /\ daily_task # "running"
    /\ ev.op \notin {"tick", "daily", "greeting"}

\* C37: the loops are quiet when the stops of terminate have run, and no step
\* taken after the stops starts one of them again or makes a pass, whether
\* the start coroutines ran before or after the stops and whether or not the
\* escalation loop was in its restart backoff
C37_StoppedLoopsStayStopped ==
    [][/\ ev'.op = "terminate" => LoopsQuiet'
       /\ ((ev.op = "terminate" \/ loop = "cancelled") /\ LoopsQuiet) => LoopsQuiet']_vars

\* the pool of the meal check: monitored users and users of
\* last_initiative_messages, whitelisted and not scheduled a lunch task today
LunchDue == {u \in Users : /\ HasRecord(u) \/ u \in last_initiative_messages
                           /\ u \in whitelist_users \/ ~whitelist_enabled
                           /\ u \notin today_lunch_users}

\* the users a step creates a lunch task for
LunchScheduled == {u \in Users : ScheduledIn(u, "lunch") # {}}

====
